---- MODULE Spec2Model ----
(***************************************************************************)
(* State-machine model of the rumqttd router core:                         *)
(*   src/rumqttd/src/router/routing.rs   (Router, event loop, handlers)    *)
(*   src/rumqttd/src/router/logs.rs      (DataLog, Data, AckLog)           *)
(*   src/rumqttd/src/router/scheduler.rs (Scheduler, Tracker)              *)
(*                                                                         *)
(* Conventions.                                                            *)
(*  - Option<T> is a sequence of length 0 (None) or 1 (Some(v)).           *)
(*  - A topic or a filter is the sequence of its '/'-separated tokens.     *)
(*  - FilterIdx is the 1-based position in datalog.native (Rust: 0-based). *)
(*  - An Offset is the record position in a one-segment log (segment 0).   *)
(*  - Handlers are operators from a router record to a router record; one  *)
(*    action applies one whole handler.  A Rust panic (unwrap on None,     *)
(*    failed assert_eq!) sets the field panic and the router thread takes  *)
(*    no further step.  debug_assert! panics only when debug_build holds.  *)
(***************************************************************************)
EXTENDS Integers, Sequences, FiniteSets, TLC

\* ------------------------------------------------------------------ bounds
\* config.max_connections
MaxConnections == 2
\* environment bound: no commit log grows beyond this many records
MaxLogLen == 2
\* environment bound: pending acks / outgoing notifications per connection
MaxQueueLen == 2
\* outgoing inflight window (iobufs MAX_INFLIGHT, scaled down)
MAX_INFLIGHT == 2
\* outgoing channel capacity (router MAX_CHANNEL_CAPACITY, scaled down)
MAX_CHANNEL_CAPACITY == 4
\* request iterations of one consume() (router MAX_SCHEDULE_ITERATIONS, scaled down)
MAX_SCHEDULE_ITERATIONS == 3
\* config.max_read_len
MaxReadLen == 2
\* Connect, DeviceData and Disconnect events sent in one behaviour
MaxEvents == 6
\* number of consume() calls after the event drain of run_inner
PollsPerIteration == 100
\* the same loop scaled down with max_connections
PollsScaled == 1

ConnIds == 0 .. (MaxConnections - 1)

\* ------------------------------------------------------------- small helpers
None == << >>
Some(v) == << v >>
IsSome(o) == o /= << >>
Unwrap(o) == o[1]

Min(a, b) == IF a <= b THEN a ELSE b

Range(q) == { q[i] : i \in 1 .. Len(q) }

\* VecDeque::remove(idx) with a 1-based index; out of range removes nothing
RemoveAt(q, i) ==
    IF i < 1 \/ i > Len(q) THEN q
    ELSE SubSeq(q, 1, i - 1) \o SubSeq(q, i + 1, Len(q))

\* VecDeque::swap_remove_back(idx): the last element takes the removed place
SwapRemoveBack(q, i) ==
    IF i = Len(q) THEN SubSeq(q, 1, Len(q) - 1)
    ELSE [ j \in 1 .. (Len(q) - 1) |-> IF j = i THEN q[Len(q)] ELSE q[j] ]

NoDuplicates(q) == \A i, j \in 1 .. Len(q) : i /= j => q[i] /= q[j]

\* ------------------------------------------------------------------- Slab
\* slab::Slab<T>: a vector of entries with a LIFO free list of vacant keys
SlabNew == [ ent |-> [ k \in ConnIds |-> None ], free |-> << >>, len |-> 0 ]
SlabGet(sl, k) == IF k \in ConnIds THEN sl.ent[k] ELSE None
SlabLen(sl) == Cardinality({ k \in ConnIds : IsSome(sl.ent[k]) })
SlabNextKey(sl) == IF sl.free /= << >> THEN Head(sl.free) ELSE sl.len
SlabInsert(sl, v) ==
    IF sl.free /= << >>
    THEN [ sl EXCEPT !.ent[Head(sl.free)] = Some(v), !.free = Tail(sl.free) ]
    ELSE [ sl EXCEPT !.ent[sl.len] = Some(v), !.len = sl.len + 1 ]
\* a variant that finds every prefix
StartsWith_Any(path, prefix) == TRUE

\* a variant that leaves an ack log in its slab
SlabRemove_KeepsAckLog(sl, k) ==
    IF IsSome(sl.ent[k]) /\ "committed" \in DOMAIN Unwrap(sl.ent[k]) THEN sl
    ELSE [ sl EXCEPT !.ent[k] = None, !.free = << k >> \o sl.free ]
SlabRemove(sl, k) == [ sl EXCEPT !.ent[k] = None, !.free = << k >> \o sl.free ]
SlabSet(sl, k, v) == [ sl EXCEPT !.ent[k] = Some(v) ]

\* ------------------------------------------------------- protocol::matches
RECURSIVE MatchTokens(_, _)
\* token-wise walk: '+' matches one token, '#' matches the remaining tokens
MatchTokens(topic, filter) ==
    IF filter = << >> THEN topic = << >>
    ELSE IF Head(filter) = "#" THEN TRUE
    ELSE IF topic = << >> THEN FALSE
    ELSE IF Head(filter) = "+" \/ Head(filter) = Head(topic)
         THEN MatchTokens(Tail(topic), Tail(filter))
    ELSE FALSE

matches(topic, filter) == MatchTokens(topic, filter)

\* str::starts_with on token sequences
StartsWith(path, prefix) ==
    /\ Len(prefix) <= Len(path)
    /\ SubSeq(path, 1, Len(prefix)) = prefix

\* ----------------------------------------------------------------- panics
Panic(s, why) == IF s.panic /= "" THEN s ELSE [ s EXCEPT !.panic = why ]
Alive(s) == s.panic = ""

\* ------------------------------------------------------ scheduler.rs: Tracker
\* Status::Ready is "Ready"; Status::Paused(r) is the name of r
PauseReasons == { "Caughtup", "InflightFull", "Busy" }
ScheduleReasons == { "Init", "NewFilter", "FreshData", "IncomingAck", "Ready" }

TrackerNew(client_id) ==
    [ id |-> client_id, data_requests |-> << >>, status |-> "Busy" ]

\* a variant whose Init and Ready arms fire from Paused(Busy) only
TryReadyFires_BusyOnly(status, reason) ==
    \/ reason \in { "Init", "Ready" } /\ status = "Busy"
    \/ reason \in { "NewFilter", "FreshData" } /\ status = "Caughtup"
    \/ reason = "IncomingAck" /\ status = "InflightFull"

\* the match arms of try_ready that set the status to Ready
TryReadyFires(status, reason) ==
    /\ status /= "Ready"
    /\ \/ reason = "Init"
       \/ reason = "NewFilter" /\ status = "Caughtup"
       \/ reason = "FreshData" /\ status = "Caughtup"
       \/ reason = "IncomingAck" /\ status = "InflightFull"
       \/ reason = "Ready"

\* the two debug_assert!(status == Paused(Busy)) of try_ready fail
TryReadyDebugFails(status, reason) ==
    /\ status /= "Ready"
    /\ reason \in { "Init", "Ready" }
    /\ status /= "Busy"

try_ready(tracker, reason) ==
    IF TryReadyFires(tracker.status, reason)
    THEN [ tracker |-> [ tracker EXCEPT !.status = "Ready" ],
           ret |-> Some(tracker.status) ]
    ELSE [ tracker |-> tracker, ret |-> None ]

register_data_request(tracker, request) ==
    [ tracker EXCEPT !.data_requests = Append(@, request) ]

RECURSIVE MatchingIdxs(_, _, _)
\* first loop of unregister_data_request: the indexes whose filter matches
MatchingIdxs(q, i, filter) ==
    IF i > Len(q) THEN << >>
    ELSE IF q[i].filter = filter THEN << i >> \o MatchingIdxs(q, i + 1, filter)
    ELSE MatchingIdxs(q, i + 1, filter)

RECURSIVE RemoveIdxs(_, _)
\* second loop: remove(idx) for each collected index, in order, on the
\* queue as the earlier removals left it
RemoveIdxs(q, idxs) ==
    IF idxs = << >> THEN q
    ELSE RemoveIdxs(RemoveAt(q, Head(idxs)), Tail(idxs))

unregister_data_request(tracker, filter) ==
    [ tracker EXCEPT !.data_requests =
        RemoveIdxs(@, MatchingIdxs(@, 1, filter)) ]

\* ---------------------------------------------------- scheduler.rs: Scheduler
HasTracker(s, id) == IsSome(SlabGet(s.trackers, id))
TrackerOf(s, id) == Unwrap(SlabGet(s.trackers, id))

track(s, id, request) ==
    IF ~Alive(s) THEN s
    ELSE IF ~HasTracker(s, id) THEN Panic(s, "track: unwrap on None")
    ELSE [ s EXCEPT !.trackers =
             SlabSet(@, id, register_data_request(TrackerOf(s, id), request)) ]

untrack(s, id, filter) ==
    IF ~Alive(s) THEN s
    ELSE IF ~HasTracker(s, id) THEN Panic(s, "untrack: unwrap on None")
    ELSE [ s EXCEPT !.trackers =
             SlabSet(@, id, unregister_data_request(TrackerOf(s, id), filter)) ]

trackv(s, id, requests) ==
    IF ~Alive(s) THEN s
    ELSE IF ~HasTracker(s, id) THEN Panic(s, "trackv: unwrap on None")
    ELSE [ s EXCEPT !.trackers =
             SlabSet(@, id, [ TrackerOf(s, id) EXCEPT
                                !.data_requests = @ \o requests ]) ]

\* reschedule that sets the status and does not push the id
reschedule_NoPush(s, id, reason) ==
    IF ~Alive(s) THEN s
    ELSE IF ~HasTracker(s, id) THEN Panic(s, "reschedule: unwrap on None")
    ELSE [ s EXCEPT !.trackers =
             SlabSet(@, id, try_ready(TrackerOf(s, id), reason).tracker) ]

reschedule(s, id, reason) ==
    IF ~Alive(s) THEN s
    ELSE IF ~HasTracker(s, id) THEN Panic(s, "reschedule: unwrap on None")
    ELSE LET t == TrackerOf(s, id)
             r == try_ready(t, reason)
         IN  IF s.debug_build /\ TryReadyDebugFails(t.status, reason)
             THEN Panic(s, "try_ready: debug assertion")
             ELSE IF IsSome(r.ret)
             THEN [ s EXCEPT !.trackers = SlabSet(@, id, r.tracker),
                             !.readyqueue = Append(@, id) ]
             ELSE s

\* pop_back must return Some(id)
pause(s, id, reason) ==
    IF ~Alive(s) THEN s
    ELSE IF s.readyqueue = << >> \/ s.readyqueue[Len(s.readyqueue)] /= id
    THEN Panic(s, "pause: assert_eq failed")
    ELSE IF ~HasTracker(s, id) THEN Panic(s, "pause: unwrap on None")
    ELSE [ s EXCEPT !.readyqueue = SubSeq(@, 1, Len(@) - 1),
                    !.trackers = SlabSet(@, id, [ TrackerOf(s, id) EXCEPT
                                                    !.status = reason ]) ]

\* a variant that does not push the polled id back onto the ready queue
poll_NoRequeue(s) ==
    IF s.readyqueue = << >> THEN [ ret |-> None, s |-> s ]
    ELSE IF ~HasTracker(s, Head(s.readyqueue))
    THEN [ ret |-> None, s |-> [ s EXCEPT !.readyqueue = Tail(@) ] ]
    ELSE [ ret |-> Some([ id |-> Head(s.readyqueue),
                          requests |-> TrackerOf(s, Head(s.readyqueue)).data_requests ]),
           s |-> [ s EXCEPT
                     !.trackers = SlabSet(@, Head(s.readyqueue),
                         [ TrackerOf(s, Head(s.readyqueue)) EXCEPT
                             !.data_requests = << >> ]),
                     !.readyqueue = Tail(@) ] ]

\* poll: [ret |-> Option<(id, data_requests)>, s |-> scheduler afterwards]
poll(s) ==
    IF s.readyqueue = << >> THEN [ ret |-> None, s |-> s ]
    ELSE LET id == Head(s.readyqueue)
             s1 == [ s EXCEPT !.readyqueue = Tail(@) ]
         IN  IF ~HasTracker(s, id) THEN [ ret |-> None, s |-> s1 ]
             ELSE [ ret |-> Some([ id |-> id,
                                   requests |-> TrackerOf(s, id).data_requests ]),
                    s |-> [ s1 EXCEPT
                              !.trackers = SlabSet(@, id,
                                  [ TrackerOf(s, id) EXCEPT !.data_requests = << >> ]),
                              !.readyqueue = Append(@, id) ] ]

check_readyqueue_duplicates(s) == NoDuplicates(s.readyqueue)

check_tracker_duplicates(s, id) ==
    LET q == TrackerOf(s, id).data_requests
    IN  \A i, j \in 1 .. Len(q) : i /= j => q[i].filter_idx /= q[j].filter_idx

\* ------------------------------------------------ segments::CommitLog (contract)
\* next_offset(): the append position
LogNextOffset(log) == Len(log)

\* readv(cursor, max_len): up to max_len records from cursor; Done when the
\* read reaches the tail, Next when more data follows
LogReadv(log, cursor, max_len) ==
    LET start == Min(cursor, Len(log))
        n == Min(max_len, Len(log) - start)
    IN  [ done |-> (start + n = Len(log)),
          start |-> start,
          end |-> start + n,
          items |-> SubSeq(log, start + 1, start + n) ]

\* ------------------------------------------------------------ Waiters (contract)
WaitersRegister(w, id, request) == Append(w, [ id |-> id, request |-> request ])

RECURSIVE WaitersOf(_, _)
\* the requests of the entries of connection id, in queue order
WaitersOf(w, id) ==
    IF w = << >> THEN << >>
    ELSE IF Head(w).id = id THEN << Head(w).request >> \o WaitersOf(Tail(w), id)
    ELSE WaitersOf(Tail(w), id)

RECURSIVE WaitersWithout(_, _)
WaitersWithout(w, id) ==
    IF w = << >> THEN << >>
    ELSE IF Head(w).id = id THEN WaitersWithout(Tail(w), id)
    ELSE << Head(w) >> \o WaitersWithout(Tail(w), id)

\* -------------------------------------------------------------- logs.rs: Data
DataNew(filter) == [ filter |-> filter, log |-> << >>, waiters |-> << >> ]

\* Data::append on native[idx]: append the item, move the parked waiters to
\* the notification list
DataAppend(s, idx, item) ==
    [ s EXCEPT !.native[idx].log = Append(@, item),
               !.native[idx].waiters = << >>,
               !.notifications = @ \o s.native[idx].waiters ]

\* ----------------------------------------------------------- logs.rs: DataLog
HasFilter(s, filter) == filter \in DOMAIN s.filter_indexes

RECURSIVE MatchesScan(_, _, _)
\* the loop of DataLog::matches over filter_indexes, visited in the order ho
MatchesScan(s, topic, ho) ==
    IF ho = << >> THEN << >>
    ELSE IF HasFilter(s, Head(ho)) /\ matches(topic, Head(ho))
         THEN << s.filter_indexes[Head(ho)] >> \o MatchesScan(s, topic, Tail(ho))
    ELSE MatchesScan(s, topic, Tail(ho))

\* DataLog::matches: [ret |-> Option<Vec<FilterIdx>>, s |-> datalog afterwards]
DataLogMatches(s, topic, ho) ==
    IF topic \in DOMAIN s.publish_filters
    THEN [ ret |-> Some(s.publish_filters[topic]), s |-> s ]
    ELSE LET v == MatchesScan(s, topic, ho)
         IN  [ ret |-> Some(v),
               s |-> IF v /= << >>
                     THEN [ s EXCEPT !.publish_filters =
                              [ t \in DOMAIN @ \cup { topic } |->
                                  IF t = topic THEN v ELSE @[t] ] ]
                     ELSE s ]

\* next_native_offset that leaves publish_filters as it is
next_native_offset_KeepsCache(s, filter) ==
    IF HasFilter(s, filter)
    THEN [ idx |-> s.filter_indexes[filter],
           cursor |-> LogNextOffset(s.native[s.filter_indexes[filter]].log),
           s |-> s ]
    ELSE LET idx == Len(s.native) + 1
         IN  [ idx |-> idx,
               cursor |-> 0,
               s |-> [ s EXCEPT
                 !.native = Append(@, DataNew(filter)),
                 !.filter_indexes =
                     [ f \in DOMAIN @ \cup { filter } |->
                         IF f = filter THEN idx ELSE @[f] ] ] ]

\* next_native_offset that matches the filter to the cached topics on every
\* call, not only when it creates the filter
next_native_offset_PushesAgain(s, filter) ==
    LET idx == IF HasFilter(s, filter) THEN s.filter_indexes[filter]
               ELSE Len(s.native) + 1
    IN  [ idx |-> idx,
          cursor |-> IF HasFilter(s, filter)
                     THEN LogNextOffset(s.native[idx].log) ELSE 0,
          s |-> [ s EXCEPT
            !.native = IF HasFilter(s, filter) THEN @
                       ELSE Append(@, DataNew(filter)),
            !.filter_indexes =
                [ f \in DOMAIN @ \cup { filter } |->
                    IF f = filter THEN idx ELSE @[f] ],
            !.publish_filters =
                [ t \in DOMAIN @ |->
                    IF matches(t, filter) THEN Append(@[t], idx) ELSE @[t] ] ] ]

\* DataLog::next_native_offset: [idx, cursor, s]
next_native_offset(s, filter) ==
    IF HasFilter(s, filter)
    THEN [ idx |-> s.filter_indexes[filter],
           cursor |-> LogNextOffset(s.native[s.filter_indexes[filter]].log),
           s |-> s ]
    ELSE LET idx == Len(s.native) + 1
         IN  [ idx |-> idx,
               cursor |-> 0,
               s |-> [ s EXCEPT
                 !.native = Append(@, DataNew(filter)),
                 !.filter_indexes =
                     [ f \in DOMAIN @ \cup { filter } |->
                         IF f = filter THEN idx ELSE @[f] ],
                 !.publish_filters =
                     [ t \in DOMAIN @ |->
                         IF matches(t, filter) THEN Append(@[t], idx) ELSE @[t] ] ] ]

native_readv(s, filter_idx, offset, len) ==
    LogReadv(s.native[filter_idx].log, offset, len)

park(s, id, request) ==
    [ s EXCEPT !.native[request.filter_idx].waiters =
                 WaitersRegister(@, id, request) ]

RECURSIVE CleanFrom(_, _, _)
\* the loop of DataLog::clean over native, from index i
CleanFrom(s, i, id) ==
    IF i > Len(s.native) THEN << >>
    ELSE WaitersOf(s.native[i].waiters, id) \o CleanFrom(s, i + 1, id)

\* DataLog::clean: [inflight |-> removed requests, s |-> datalog afterwards]
DataLogClean(s, id) ==
    [ inflight |-> CleanFrom(s, 1, id),
      s |-> [ s EXCEPT !.native =
                [ i \in 1 .. Len(@) |->
                    [ @[i] EXCEPT !.waiters = WaitersWithout(@, id) ] ] ] ]

\* position of the first waiter of id, 0 when there is none
FirstWaiterPos(w, id) ==
    IF \E i \in 1 .. Len(w) : w[i].id = id
    THEN CHOOSE i \in 1 .. Len(w) :
            /\ w[i].id = id
            /\ \A j \in 1 .. (i - 1) : w[j].id /= id
    ELSE 0

remove_waiters_for_id(s, id, filter) ==
    IF ~HasFilter(s, filter) THEN s
    ELSE LET idx == s.filter_indexes[filter]
             pos == FirstWaiterPos(s.native[idx].waiters, id)
         IN  IF pos = 0 THEN s
             ELSE [ s EXCEPT !.native[idx].waiters = SwapRemoveBack(@, pos) ]

insert_to_retained_publishes(s, publish, topic) ==
    [ s EXCEPT !.retained_publishes =
        [ t \in DOMAIN @ \cup { topic } |-> IF t = topic THEN publish ELSE @[t] ] ]

\* an empty payload that clears nothing
remove_from_retained_publishes_Keeps(s, topic) == s

remove_from_retained_publishes(s, topic) ==
    [ s EXCEPT !.retained_publishes =
        [ t \in DOMAIN @ \ { topic } |-> @[t] ] ]

RECURSIVE RetainedScan(_, _, _, _)
\* the loop of handle_retained_messages over retained_publishes, in order to
RetainedScan(s, idx, filter, to) ==
    IF to = << >> THEN s
    ELSE IF Head(to) \in DOMAIN s.retained_publishes /\ matches(Head(to), filter)
         THEN RetainedScan(DataAppend(s, idx, s.retained_publishes[Head(to)]),
                           idx, filter, Tail(to))
    ELSE RetainedScan(s, idx, filter, Tail(to))

\* a Subscribe that replays nothing
handle_retained_messages_Skips(s, filter, to) == s

handle_retained_messages(s, filter, to) ==
    IF ~Alive(s) THEN s
    ELSE IF ~HasFilter(s, filter)
    THEN Panic(s, "handle_retained_messages: unwrap on None")
    ELSE RetainedScan(s, s.filter_indexes[filter], filter, to)

\* ------------------------------------------------------------ logs.rs: AckLog
AckLogNew == [ committed |-> << >>, recorded |-> << >> ]

HasAckLog(s, id) == IsSome(SlabGet(s.ackslog, id))
AckLogOf(s, id) == Unwrap(SlabGet(s.ackslog, id))

\* connack, suback, puback, pubrel, pingresp, unsuback: push onto committed
AckPush(s, id, ack) ==
    IF ~Alive(s) THEN s
    ELSE IF ~HasAckLog(s, id) THEN Panic(s, "ackslog: unwrap on None")
    ELSE [ s EXCEPT !.ackslog =
             SlabSet(@, id, [ AckLogOf(s, id) EXCEPT !.committed = Append(@, ack) ]) ]

\* AckLog::pubrec: record the publish, push the ack
pubrec(s, id, publish, ack) ==
    IF ~Alive(s) THEN s
    ELSE IF ~HasAckLog(s, id) THEN Panic(s, "ackslog: unwrap on None")
    ELSE [ s EXCEPT !.ackslog =
             SlabSet(@, id, [ AckLogOf(s, id) EXCEPT
                                !.recorded = Append(@, publish),
                                !.committed = Append(@, ack) ]) ]

\* AckLog::pubcomp: push the ack, pop the front of recorded
\* [ret |-> Option<Publish>, s]
pubcomp(s, id, ack) ==
    LET al == AckLogOf(s, id)
    IN  [ ret |-> IF al.recorded = << >> THEN None ELSE Some(Head(al.recorded)),
          s |-> [ s EXCEPT !.ackslog =
                    SlabSet(@, id, [ al EXCEPT
                        !.committed = Append(@, ack),
                        !.recorded = IF @ = << >> THEN @ ELSE Tail(@) ]) ] ]

\* --------------------------------------------------- iobufs::Outgoing (contract)
OutgoingNew(client_id) ==
    [ client_id |-> client_id, data_buffer |-> << >>,
      inflight_buffer |-> << >>, last_pkid |-> 0 ]

free_slots(outgoing) == MAX_INFLIGHT - Len(outgoing.inflight_buffer)

RECURSIVE push_forwards(_, _, _, _)
\* push_forwards: QoS 0 forwards go to the buffer as they are; a QoS 1
\* forward takes the next packet id and a slot of the inflight window
push_forwards(outgoing, forwards, qos, filter_idx) ==
    IF forwards = << >> THEN outgoing
    ELSE IF qos = 0
    THEN [ outgoing EXCEPT !.data_buffer = @ \o forwards ]
    ELSE LET pkid == outgoing.last_pkid + 1
             f == [ Head(forwards) EXCEPT !.publish.pkid = pkid ]
         IN  push_forwards(
                 [ outgoing EXCEPT
                     !.data_buffer = Append(@, f),
                     !.inflight_buffer = Append(@, pkid),
                     !.last_pkid = IF pkid = MAX_INFLIGHT THEN 0 ELSE pkid ],
                 Tail(forwards), qos, filter_idx)

push_notification(outgoing, n) ==
    [ outgoing EXCEPT !.data_buffer = Append(@, n) ]

\* register_ack: pop the head of the inflight window; None when the window
\* is empty or the head is another packet id
\* [ret |-> Option<()>, outgoing]
register_ack(outgoing, pkid) ==
    IF outgoing.inflight_buffer = << >>
    THEN [ ret |-> None, outgoing |-> outgoing ]
    ELSE [ ret |-> IF Head(outgoing.inflight_buffer) = pkid THEN Some(TRUE) ELSE None,
           outgoing |-> [ outgoing EXCEPT !.inflight_buffer = Tail(@) ] ]

HasOutgoing(s, id) == IsSome(SlabGet(s.obufs, id))
OutgoingOf(s, id) == Unwrap(SlabGet(s.obufs, id))
HasConnection(s, id) == IsSome(SlabGet(s.connections, id))
ConnectionOf(s, id) == Unwrap(SlabGet(s.connections, id))

SetConnection(s, id, c) == [ s EXCEPT !.connections = SlabSet(@, id, c) ]
SetOutgoing(s, id, o) == [ s EXCEPT !.obufs = SlabSet(@, id, o) ]

\* ------------------------------------------- routing.rs: append_to_commitlog
RECURSIVE AppendToFilters(_, _, _)
\* the loop over filter_idxs
AppendToFilters(s, filter_idxs, publish) ==
    IF filter_idxs = << >> THEN s
    ELSE AppendToFilters(DataAppend(s, Head(filter_idxs), publish),
                         Tail(filter_idxs), publish)

\* [ok |-> BOOLEAN, err |-> error name, s |-> router afterwards]
\* ho.filters, ho.topics: iteration orders of the hash maps (ho.save_pauses:
\* see GraveyardSave)
append_to_commitlog(s, id, publish, ho) ==
    LET topic == publish.topic
        conn == ConnectionOf(s, id)
        item == [ publish EXCEPT !.retain = FALSE ]
        \* lines 903-923, m the result of datalog.matches(topic)
        Fanout(m) ==
            IF IsSome(m.ret)
            THEN [ ok |-> TRUE, err |-> "",
                   s |-> AppendToFilters(m.s, Unwrap(m.ret), item) ]
            ELSE IF conn.dynamic_filters
            THEN LET Created(n) ==
                         [ ok |-> TRUE, err |-> "",
                           s |-> AppendToFilters(n.s, << n.idx >>, item) ]
                 IN  Created(next_native_offset(m.s, topic))
            ELSE [ ok |-> FALSE, err |-> "NoMatchingFilters", s |-> m.s ]
    IN  IF IsSome(conn.tenant_prefix) /\ ~StartsWith(topic, Unwrap(conn.tenant_prefix))
        THEN [ ok |-> FALSE, err |-> "BadTenant", s |-> s ]
        ELSE Fanout(DataLogMatches(
                 IF publish.payload = ""
                 THEN remove_from_retained_publishes(s, topic)
                 ELSE IF publish.retain
                 THEN insert_to_retained_publishes(s, publish, topic)
                 ELSE s,
                 topic, ho.filters))

RECURSIVE DrainNotifications(_)
\* while let Some((id, request)) = notifications.pop_front(): track, reschedule
DrainNotifications(s) ==
    IF ~Alive(s) \/ s.notifications = << >> THEN s
    ELSE LET n == Head(s.notifications)
         IN  DrainNotifications(
                 reschedule(track([ s EXCEPT !.notifications = Tail(@) ],
                                  n.id, n.request),
                            n.id, "FreshData"))

\* ------------------------------------------------ Router::handle_last_will
handle_last_will(s, id, ho) ==
    IF ~Alive(s) THEN s
    ELSE IF ~HasConnection(s, id) THEN Panic(s, "handle_last_will: unwrap on None")
    ELSE LET conn == ConnectionOf(s, id)
             will == Unwrap(conn.last_will)
             publish == [ topic |-> will.topic, payload |-> will.message,
                          qos |-> will.qos, pkid |-> 0, retain |-> will.retain ]
             \* Err: router_metrics.failed_publishes += 1 (a metric, not modelled)
             Appended(a) == IF a.ok THEN DrainNotifications(a.s) ELSE a.s
         IN  IF ~IsSome(conn.last_will) THEN s
             ELSE Appended(append_to_commitlog(
                      SetConnection(s, id, [ conn EXCEPT !.last_will = None ]),
                      id, publish, ho))

\* ------------------------------------------------------ graveyard (contract)
SavedStateNew(client_id) ==
    [ tracker |-> TrackerNew(client_id), subscriptions |-> { } ]

\* Graveyard::retrieve takes the saved state of the client out of the map
GraveyardRetrieve(s, client_id) == s.graveyard[client_id]
GraveyardTake(s, client_id) == [ s EXCEPT !.graveyard[client_id] = None ]

\* Graveyard::save stores the state under tracker.id, overwriting.  Whether
\* it stores the tracker with the status it has or pauses it first is not
\* fixed by what is known of the graveyard: pauses is either
GraveyardSave(s, tracker, subscriptions, pauses) ==
    [ s EXCEPT !.graveyard[tracker.id] =
        Some([ tracker |-> IF pauses THEN [ tracker EXCEPT !.status = "Busy" ]
                           ELSE tracker,
               subscriptions |-> subscriptions ]) ]

\* ------------------------------------------- Router::handle_new_connection
\* a Connect that takes the saved tracker whatever the clean flag
SessionTracker_Restores(clean_session, state, client_id) == state.tracker

\* lines 234-249: the tracker of the new connection
SessionTracker(clean_session, state, client_id) ==
    IF ~clean_session THEN state.tracker ELSE TrackerNew(client_id)

\* lines 234-249: the subscriptions of the new connection
SessionSubscriptions(clean_session, state, connection) ==
    IF ~clean_session THEN state.subscriptions ELSE connection.subscriptions

\* lines 236-288: the saved session is taken from the graveyard and the
\* connection is inserted in the five slabs
InsertConnection(s, connection) ==
    LET client_id == connection.client_id
        saved == GraveyardRetrieve(s, client_id)
        clean_session == connection.clean
        previous_session == IsSome(saved)
        state == IF previous_session THEN Unwrap(saved) ELSE SavedStateNew(client_id)
        connection_id == SlabNextKey(s.connections)
        ack == [ type |-> "ConnAck", id |-> connection_id,
                 session_present |-> (~clean_session /\ previous_session) ]
        \* lines 262-288, s1 the router with the connection inserted
        Inserted(s1) ==
            IF s.debug_build /\ ~check_tracker_duplicates(s1, connection_id)
            THEN Panic(s1, "handle_new_connection: debug assertion")
            ELSE reschedule(AckPush(s1, connection_id, ack), connection_id, "Init")
        \* lines 251-260, s0 the router with the saved state taken
        Insert(s0) ==
            IF \/ SlabNextKey(s0.ibufs) /= connection_id
               \/ SlabNextKey(s0.obufs) /= connection_id
               \/ SlabNextKey(s0.ackslog) /= connection_id
               \/ SlabNextKey(s0.trackers) /= connection_id
            THEN Panic(s0, "handle_new_connection: assert_eq failed")
            ELSE Inserted([ s0 EXCEPT
                    !.connections = SlabInsert(@,
                        [ connection EXCEPT !.subscriptions =
                            SessionSubscriptions(clean_session, state, connection) ]),
                    !.ibufs = SlabInsert(@, [ client_id |-> client_id ]),
                    !.obufs = SlabInsert(@, OutgoingNew(client_id)),
                    !.connection_map[client_id] = Some(connection_id),
                    !.ackslog = SlabInsert(@, AckLogNew),
                    !.trackers = SlabInsert(@,
                        SessionTracker(clean_session, state, client_id)) ])
    IN  Insert(GraveyardTake(s, client_id))

\* a variant that takes the saved session out of the graveyard before the
\* check of max_connections
handle_new_connection_TakesSession(s, connection) ==
    IF ~Alive(s) THEN s
    ELSE IF SlabLen(s.connections) >= MaxConnections
    THEN GraveyardTake(s, connection.client_id)
    ELSE InsertConnection(s, connection)

handle_new_connection(s, connection) ==
    IF ~Alive(s) THEN s
    ELSE IF SlabLen(s.connections) >= MaxConnections THEN s
    ELSE InsertConnection(s, connection)

\* -------------------------------------------- Router::handle_disconnection
RECURSIVE RegisterAll(_, _)
RegisterAll(tracker, requests) ==
    IF requests = << >> THEN tracker
    ELSE RegisterAll(register_data_request(tracker, Head(requests)), Tail(requests))

\* lines 341-355: what goes to the graveyard
SessionToSave(connection, tracker, inflight_data_requests, client_id) ==
    IF ~connection.clean
    THEN [ tracker |-> RegisterAll(tracker, inflight_data_requests),
           subscriptions |-> connection.subscriptions ]
    ELSE [ tracker |-> TrackerNew(client_id), subscriptions |-> { } ]

\* lines 305-355: the last will, then the connection leaves the router and
\* its session goes to the graveyard
RemoveConnection(s, id, execute_last_will, ho) ==
    LET client_id == OutgoingOf(s, id).client_id
        \* lines 310-355, s1 the router after the last will
        Remove(s1) ==
            IF ~Alive(s1) THEN s1
            ELSE
            LET connection == ConnectionOf(s1, id)
                tracker == TrackerOf(s1, id)
                \* c the result of datalog.clean(id)
                Cleaned(c) ==
                    LET saved == SessionToSave(connection, tracker, c.inflight, client_id)
                    IN  GraveyardSave(
                            [ c.s EXCEPT !.subscription_map =
                                [ f \in DOMAIN @ |->
                                    IF f \in connection.subscriptions
                                    THEN @[f] \ { id } ELSE @[f] ] ],
                            saved.tracker, saved.subscriptions, ho.save_pauses)
            IN  Cleaned(DataLogClean(
                    [ s1 EXCEPT
                        !.connections = SlabRemove(@, id),
                        !.ibufs = SlabRemove(@, id),
                        !.obufs = SlabRemove(@, id),
                        !.trackers = SlabRemove(@, id),
                        !.connection_map[client_id] = None,
                        !.ackslog = SlabRemove(@, id) ],
                    id))
    IN  Remove(IF execute_last_will THEN handle_last_will(s, id, ho) ELSE s)

\* a variant without the early return of lines 294-303: Slab::remove of a
\* vacant key panics
handle_disconnection_NoReturn(s, id, execute_last_will, ho) ==
    IF ~Alive(s) THEN s
    ELSE IF ~HasOutgoing(s, id) THEN Panic(s, "Slab::remove: invalid key")
    ELSE RemoveConnection(s, id, execute_last_will, ho)

handle_disconnection(s, id, execute_last_will, ho) ==
    IF ~Alive(s) THEN s
    ELSE IF ~HasOutgoing(s, id) THEN s
    ELSE RemoveConnection(s, id, execute_last_will, ho)

\* ------------------------------------------------- routing.rs: validate_subscription
validate_subscription(connection, f) ==
    IF IsSome(connection.tenant_prefix)
       /\ ~StartsWith(f.path, Unwrap(connection.tenant_prefix))
    THEN "InvalidFilterPrefix"
    ELSE IF f.qos = 2 THEN "UnsupportedQoS"
    ELSE IF f.path /= << >> /\ Head(f.path) \in { "test", "$" }
    THEN "InvalidFilterPrefix"
    ELSE "Ok"

\* ------------------------------------------------------ Router::prepare_filter
prepare_filter(s, id, cursor, filter_idx, filter, qos) ==
    IF ~Alive(s) THEN s
    ELSE
    LET request == [ filter |-> filter, filter_idx |-> filter_idx,
                     qos |-> qos, cursor |-> cursor ]
        \* line 729
        Tracked(s3) ==
            IF Alive(s3) /\ s3.debug_build /\ ~check_tracker_duplicates(s3, id)
            THEN Panic(s3, "prepare_filter: debug assertion")
            ELSE s3
        \* lines 713-730, s1 the router with id in the subscription list
        Listed(s1) ==
            LET connection == ConnectionOf(s1, id)
            IN  IF filter \notin connection.subscriptions
                THEN Tracked(reschedule(
                         track(SetConnection(s1, id,
                                   [ connection EXCEPT
                                       !.subscriptions = @ \cup { filter } ]),
                               id, request),
                         id, "NewFilter"))
                ELSE s1
    IN  Listed([ s EXCEPT !.subscription_map =
                   [ f \in DOMAIN @ \cup { filter } |->
                       IF f = filter
                       THEN (IF f \in DOMAIN @ THEN @[f] ELSE { }) \cup { id }
                       ELSE @[f] ] ])

\* --------------------------------------- Router::handle_device_payload: packets
RECURSIVE SubscribeFilters(_, _, _, _, _)
\* the loop over the filters of one Subscribe packet
\* [s, return_codes, disconnect]
SubscribeFilters(s, id, filters, return_codes, ho) ==
    IF ~Alive(s) \/ filters = << >>
    THEN [ s |-> s, return_codes |-> return_codes, disconnect |-> FALSE ]
    ELSE LET f == Head(filters)
             \* lines 504-514, n the result of next_native_offset
             Offset(n) ==
                 SubscribeFilters(
                     handle_retained_messages(
                         prepare_filter(n.s, id, n.cursor, n.idx, f.path, f.qos),
                         f.path, ho.topics),
                     id, Tail(filters), Append(return_codes, f.qos), ho)
         IN  IF validate_subscription(ConnectionOf(s, id), f) /= "Ok"
             THEN [ s |-> s, return_codes |-> return_codes, disconnect |-> TRUE ]
             ELSE Offset(next_native_offset(s, f.path))

RECURSIVE UnsubscribeFilters(_, _, _, _)
\* the loop over the filters of one Unsubscribe packet: [s, force_ack]
UnsubscribeFilters(s, id, pkid, filters) ==
    IF ~Alive(s) \/ filters = << >> THEN [ s |-> s, force_ack |-> FALSE ]
    ELSE LET filter == Head(filters).path
             Rest(r, fa) == [ s |-> r.s, force_ack |-> fa \/ r.force_ack ]
             \* lines 556-566, s4 the router after untrack
             Untracked(s4) ==
                 IF Alive(s4) THEN remove_waiters_for_id(s4, id, filter) ELSE s4
             \* lines 541-566, s1 the router with id out of the subscription list
             Unlisted(s1) ==
                 LET connection == ConnectionOf(s1, id)
                 IN  IF filter \notin connection.subscriptions
                     THEN Rest(UnsubscribeFilters(s1, id, pkid, Tail(filters)), FALSE)
                     ELSE Rest(UnsubscribeFilters(
                                   Untracked(untrack(
                                       AckPush(SetConnection(s1, id,
                                                   [ connection EXCEPT
                                                       !.subscriptions = @ \ { filter } ]),
                                               id, [ type |-> "UnsubAck", pkid |-> pkid ]),
                                       id, filter)),
                                   id, pkid, Tail(filters)),
                               TRUE)
         IN  IF \/ filter \notin DOMAIN s.subscription_map
                \/ id \notin s.subscription_map[filter]
             THEN Rest(UnsubscribeFilters(s, id, pkid, Tail(filters)), FALSE)
             ELSE Unlisted([ s EXCEPT !.subscription_map[filter] = @ \ { id } ])

\* a variant where a failing batch does not execute the last will
LocalsInit_NoWill ==
    [ force_ack |-> FALSE, new_data |-> FALSE, disconnect |-> FALSE,
      execute_will |-> FALSE, brk |-> FALSE ]

\* locals of handle_device_payload
LocalsInit ==
    [ force_ack |-> FALSE, new_data |-> FALSE, disconnect |-> FALSE,
      execute_will |-> TRUE, brk |-> FALSE ]

\* lines 434-476 and 623-645: the outcome of append_to_commitlog, [s, l]
Appended(a, l) ==
    IF a.ok
    THEN [ s |-> a.s, l |-> [ l EXCEPT !.new_data = TRUE ] ]
    ELSE [ s |-> a.s, l |-> [ l EXCEPT !.disconnect = TRUE, !.brk = TRUE ] ]

\* a Publish arm without the continue of the QoS 2 case: the publish is
\* recorded and appended on receipt
HandlePublish_AppendsQos2(s, l, id, publish, ho) ==
    IF publish.qos = 2
    THEN Appended(append_to_commitlog(
                      pubrec(s, id, publish, [ type |-> "PubRec", pkid |-> publish.pkid ]),
                      id, publish, ho),
                  [ l EXCEPT !.force_ack = TRUE ])
    ELSE IF publish.qos = 1
    THEN Appended(append_to_commitlog(
                      AckPush(s, id, [ type |-> "PubAck", pkid |-> publish.pkid ]),
                      id, publish, ho),
                  [ l EXCEPT !.force_ack = TRUE ])
    ELSE Appended(append_to_commitlog(s, id, publish, ho), l)

\* the arm Packet::Publish: [s, l]
HandlePublish(s, l, id, publish, ho) ==
    IF publish.qos = 2
    THEN [ s |-> pubrec(s, id, publish, [ type |-> "PubRec", pkid |-> publish.pkid ]),
           l |-> [ l EXCEPT !.force_ack = TRUE ] ]
    ELSE IF publish.qos = 1
    THEN Appended(append_to_commitlog(
                      AckPush(s, id, [ type |-> "PubAck", pkid |-> publish.pkid ]),
                      id, publish, ho),
                  [ l EXCEPT !.force_ack = TRUE ])
    ELSE Appended(append_to_commitlog(s, id, publish, ho), l)

\* the arm Packet::PubRel: [s, l]
HandlePubRel(s, l, id, pkid, ho) ==
    LET Completed(r) ==
            IF ~IsSome(r.ret)
            THEN [ s |-> r.s, l |-> [ l EXCEPT !.disconnect = TRUE, !.brk = TRUE ] ]
            ELSE Appended(append_to_commitlog(r.s, id, Unwrap(r.ret), ho), l)
    IN  Completed(pubcomp(s, id, [ type |-> "PubComp", pkid |-> pkid ]))

\* the arms Packet::PubAck and Packet::PubRec: [s, l]
HandleAck(s, l, id, packet) ==
    LET Registered(r) ==
            IF ~IsSome(r.ret)
            THEN [ s |-> SetOutgoing(s, id, r.outgoing),
                   l |-> [ l EXCEPT !.disconnect = TRUE, !.brk = TRUE ] ]
            ELSE [ s |-> reschedule(
                            IF packet.type = "PubRec"
                            THEN AckPush(SetOutgoing(s, id, r.outgoing), id,
                                         [ type |-> "PubRel", pkid |-> packet.pkid ])
                            ELSE SetOutgoing(s, id, r.outgoing),
                            id, "IncomingAck"),
                   l |-> l ]
    IN  Registered(register_ack(OutgoingOf(s, id), packet.pkid))

\* one arm of the match on the packet: [s, l]
HandlePacket(s, l, id, packet, ho) ==
    CASE packet.type = "Publish" -> HandlePublish(s, l, id, packet.publish, ho)
      [] packet.type = "Subscribe" ->
            LET Subscribed(r) ==
                    [ s |-> AckPush(r.s, id,
                                [ type |-> "SubAck", pkid |-> packet.pkid,
                                  return_codes |-> r.return_codes ]),
                      l |-> [ l EXCEPT !.force_ack = TRUE,
                                       !.disconnect = @ \/ r.disconnect ] ]
            IN  Subscribed(SubscribeFilters(s, id, packet.filters, << >>, ho))
      [] packet.type = "Unsubscribe" ->
            LET Unsubscribed(r) ==
                    [ s |-> r.s, l |-> [ l EXCEPT !.force_ack = @ \/ r.force_ack ] ]
            IN  Unsubscribed(UnsubscribeFilters(s, id, packet.pkid, packet.filters))
      [] packet.type \in { "PubAck", "PubRec" } -> HandleAck(s, l, id, packet)
      [] packet.type = "PubRel" -> HandlePubRel(s, l, id, packet.pkid, ho)
      [] packet.type = "PubComp" -> [ s |-> s, l |-> l ]
      [] packet.type = "PingReq" ->
            [ s |-> AckPush(s, id, [ type |-> "PingResp" ]),
              l |-> [ l EXCEPT !.force_ack = TRUE ] ]
      [] packet.type = "Disconnect" ->
            [ s |-> s,
              l |-> [ l EXCEPT !.disconnect = TRUE, !.execute_will = FALSE,
                               !.brk = TRUE ] ]
      [] OTHER -> [ s |-> s, l |-> l ]

RECURSIVE ProcessPackets(_, _, _, _, _)
\* for packet in packets.drain(0..)
ProcessPackets(s, l, id, packets, ho) ==
    IF ~Alive(s) \/ l.brk \/ packets = << >> THEN [ s |-> s, l |-> l ]
    ELSE LET Handled(r) == ProcessPackets(r.s, r.l, id, Tail(packets), ho)
         IN  Handled(HandlePacket(s, l, id, Head(packets), ho))

\* ------------------------------------------- Router::handle_device_payload
handle_device_payload(s, id, packets, ho) ==
    IF ~Alive(s) THEN s
    ELSE IF ~IsSome(SlabGet(s.ibufs, id)) THEN s
    ELSE LET \* lines 665-689, r the router and the flags after the packet loop
             Processed(r) ==
                 LET Notified(s2) ==
                         IF r.l.disconnect
                         THEN handle_disconnection(s2, id, r.l.execute_will, ho)
                         ELSE s2
                     Acked(s1) ==
                         Notified(IF r.l.new_data THEN DrainNotifications(s1) ELSE s1)
                 IN  Acked(IF r.l.force_ack
                           THEN reschedule(r.s, id, "FreshData") ELSE r.s)
         IN  Processed(ProcessPackets(s, LocalsInit, id, packets, ho))

\* -------------------------------------------------- routing.rs: ack_device_data
RECURSIVE AsDeviceAcks(_)
AsDeviceAcks(acks) ==
    IF acks = << >> THEN << >>
    ELSE << [ kind |-> "DeviceAck", ack |-> Head(acks) ] >> \o AsDeviceAcks(Tail(acks))

\* a variant that leaves the pushed acks in the ack log
ack_device_data_KeepsAcks(s, id) ==
    [ s EXCEPT !.obufs = SlabSet(@, id,
        [ OutgoingOf(s, id) EXCEPT
            !.data_buffer = @ \o AsDeviceAcks(AckLogOf(s, id).committed) ]) ]

\* drain ackslog[id].committed into obufs[id].data_buffer
ack_device_data(s, id) ==
    LET al == AckLogOf(s, id)
        o == OutgoingOf(s, id)
    IN  [ s EXCEPT
            !.ackslog = SlabSet(@, id, [ al EXCEPT !.committed = << >> ]),
            !.obufs = SlabSet(@, id,
                [ o EXCEPT !.data_buffer = @ \o AsDeviceAcks(al.committed) ]) ]

\* ---------------------------------------------- routing.rs: forward_device_data
RECURSIVE AsForwards(_, _, _, _, _)
\* publishes.into_iter().map(..): the publish takes the QoS of the request.
\* from: ghost, the filter index and log position the forward was read at
AsForwards(publishes, qos, next, filter_idx, pos) ==
    IF publishes = << >> THEN << >>
    ELSE << [ kind |-> "Forward", cursor |-> next,
              publish |-> [ Head(publishes) EXCEPT !.qos = qos ],
              from |-> << filter_idx, pos >> ] >>
         \o AsForwards(Tail(publishes), qos, next, filter_idx, pos + 1)

\* [status |-> ConsumeStatus, request, s]
forward_device_data(s, id, request) ==
    LET outgoing == OutgoingOf(s, id)
        \* lines 1040-1080, o1 the buffer with the forwards pushed
        Pushed(o1, done, request1) ==
            IF Len(o1.data_buffer) >= MAX_CHANNEL_CAPACITY - 1
            THEN [ status |-> "BufferFull", request |-> request1,
                   s |-> SetOutgoing(s, id,
                           push_notification(o1, [ kind |-> "Unschedule" ])) ]
            ELSE [ status |-> IF done THEN "FilterCaughtup" ELSE "PartialRead",
                   request |-> request1,
                   s |-> SetOutgoing(s, id, o1) ]
        \* lines 1005-1038, r the result of native_readv
        Read(r) ==
            IF r.items = << >>
            THEN [ status |-> "FilterCaughtup",
                   request |-> [ request EXCEPT !.cursor = r.end ], s |-> s ]
            ELSE Pushed(push_forwards(outgoing,
                            AsForwards(r.items, request.qos, r.end,
                                       request.filter_idx, r.start),
                            request.qos, request.filter_idx),
                        r.done, [ request EXCEPT !.cursor = r.end ])
    IN  IF request.qos = 1 /\ free_slots(outgoing) = 0
        THEN [ status |-> "InflightFull", request |-> request, s |-> s ]
        ELSE Read(native_readv(s, request.filter_idx, request.cursor,
                               IF request.qos = 1 THEN free_slots(outgoing)
                               ELSE MaxReadLen))

\* ------------------------------------------------------------ Router::consume
RECURSIVE ConsumeLoop(_, _, _, _)
\* for _ in 0..MAX_SCHEDULE_ITERATIONS over the polled requests
ConsumeLoop(s, id, requests, iter) ==
    IF ~Alive(s) THEN s
    ELSE IF iter >= MAX_SCHEDULE_ITERATIONS THEN trackv(s, id, requests)
    ELSE IF requests = << >> THEN pause(s, id, "Caughtup")
    ELSE LET rest == Tail(requests)
             \* f the result of forward_device_data
             Forwarded(f) ==
                 CASE f.status = "BufferFull" ->
                        trackv(pause(f.s, id, "Busy"), id, Append(rest, f.request))
                   [] f.status = "InflightFull" ->
                        trackv(pause(f.s, id, "InflightFull"), id,
                               Append(rest, f.request))
                   [] f.status = "FilterCaughtup" ->
                        ConsumeLoop(park(f.s, id, f.request), id, rest, iter + 1)
                   [] f.status = "PartialRead" ->
                        ConsumeLoop(f.s, id, Append(rest, f.request), iter + 1)
         IN  Forwarded(forward_device_data(s, id, Head(requests)))

\* [some |-> consume() returned Some(()), s]
consume(s) ==
    LET Polled(p) ==
            IF ~IsSome(p.ret) THEN [ some |-> FALSE, s |-> p.s ]
            ELSE IF ~HasOutgoing(p.s, Unwrap(p.ret).id)
            THEN [ some |-> TRUE, s |-> p.s ]
            ELSE IF ~HasAckLog(p.s, Unwrap(p.ret).id)
            THEN [ some |-> TRUE, s |-> Panic(p.s, "consume: unwrap on None") ]
            ELSE [ some |-> TRUE,
                   s |-> ConsumeLoop(ack_device_data(p.s, Unwrap(p.ret).id),
                                     Unwrap(p.ret).id, Unwrap(p.ret).requests, 0) ]
    IN  Polled(poll(s))

\* ===================================================================== state
VARIABLES
    graveyard,          \* Router.graveyard: client id -> Option<SavedState>
    connections,        \* Router.connections: Slab<Connection>
    connection_map,     \* Router.connection_map: client id -> Option<ConnectionId>
    subscription_map,   \* Router.subscription_map: filter -> set of ConnectionId
    ibufs,              \* Router.ibufs: Slab<Incoming>
    obufs,              \* Router.obufs: Slab<Outgoing>
    native,             \* Router.datalog.native: the per-filter Data, by FilterIdx
    filter_indexes,     \* Router.datalog.filter_indexes
    retained_publishes, \* Router.datalog.retained_publishes
    publish_filters,    \* Router.datalog.publish_filters
    ackslog,            \* Router.ackslog: Slab<AckLog>
    trackers,           \* Router.scheduler.trackers: Slab<Tracker>
    readyqueue,         \* Router.scheduler.readyqueue
    notifications,      \* Router.notifications
    panic,              \* "" while the router thread runs, else why it panicked
    debug_build,        \* debug_assert! is compiled in
    pc,                 \* position of the router thread in run_inner
    polls,              \* consume() calls done in the poll loop of run_inner
    ready_inflight,     \* connection ids with an Event::Ready in the channel
    events_sent,        \* events the links have sent to the router so far
    last                \* the event Router::events handled last in this drain loop

vars == << graveyard, connections, connection_map, subscription_map, ibufs, obufs,
           native, filter_indexes, retained_publishes, publish_filters, ackslog,
           trackers, readyqueue, notifications, panic, debug_build, pc, polls,
           ready_inflight, events_sent, last >>

\* the router as one record, the argument of the handlers
R == [ graveyard |-> graveyard, connections |-> connections,
       connection_map |-> connection_map, subscription_map |-> subscription_map,
       ibufs |-> ibufs, obufs |-> obufs, native |-> native,
       filter_indexes |-> filter_indexes,
       retained_publishes |-> retained_publishes,
       publish_filters |-> publish_filters, ackslog |-> ackslog,
       trackers |-> trackers, readyqueue |-> readyqueue,
       notifications |-> notifications, panic |-> panic,
       debug_build |-> debug_build ]

Install(s) ==
    /\ graveyard' = s.graveyard
    /\ connections' = s.connections
    /\ connection_map' = s.connection_map
    /\ subscription_map' = s.subscription_map
    /\ ibufs' = s.ibufs
    /\ obufs' = s.obufs
    /\ native' = s.native
    /\ filter_indexes' = s.filter_indexes
    /\ retained_publishes' = s.retained_publishes
    /\ publish_filters' = s.publish_filters
    /\ ackslog' = s.ackslog
    /\ trackers' = s.trackers
    /\ readyqueue' = s.readyqueue
    /\ notifications' = s.notifications
    /\ panic' = s.panic
    /\ debug_build' = s.debug_build

\* ------------------------------------------------------------ input universes
ClientIds == { "a", "b", "c" }

TopicAB == << "a", "b" >>
TopicAC == << "a", "c" >>
FilterAB == << "a", "b" >>
FilterAPlus == << "a", "+" >>
FilterAll == << "#" >>

\* what Router::events was called with: the event, the connection id, and for
\* a Connect the client, its clean flag and whether the graveyard held state;
\* removed: the handler took the connection of id out of the router
NoEvent ==
    [ ev |-> "None", id |-> 0, client |-> "", clean |-> FALSE, saved |-> FALSE,
      packets |-> << >>, removed |-> FALSE, again |-> FALSE,
      execute_will |-> FALSE ]

\* Router::new: empty slabs and maps, DataLog::new with no initialized_filters
Init ==
    /\ graveyard = [ c \in ClientIds |-> None ]
    /\ connections = SlabNew
    /\ connection_map = [ c \in ClientIds |-> None ]
    /\ subscription_map = << >>
    /\ ibufs = SlabNew
    /\ obufs = SlabNew
    /\ native = << >>
    /\ filter_indexes = << >>
    /\ retained_publishes = << >>
    /\ publish_filters = << >>
    /\ ackslog = SlabNew
    /\ trackers = SlabNew
    /\ readyqueue = << >>
    /\ notifications = << >>
    /\ panic = ""
    /\ debug_build \in BOOLEAN
    /\ pc = "top"
    /\ polls = 0
    /\ ready_inflight = { }
    /\ events_sent = 0
    /\ last = NoEvent

\* ---------------------------------------------------------- environment bounds
RECURSIVE CountAcks(_)
CountAcks(buf) ==
    IF buf = << >> THEN 0
    ELSE (IF Head(buf).kind = "DeviceAck" THEN 1 ELSE 0) + CountAcks(Tail(buf))

\* the clients and publishers stay within the bounds of the model
Bounded(s) ==
    /\ \A i \in 1 .. Len(s.native) : Len(s.native[i].log) <= MaxLogLen
    /\ \A id \in ConnIds :
          HasAckLog(s, id) /\ HasOutgoing(s, id) =>
            /\ Len(AckLogOf(s, id).committed)
                 + CountAcks(OutgoingOf(s, id).data_buffer) <= MaxQueueLen
            /\ Len(AckLogOf(s, id).recorded) <= MaxLogLen

\* ------------------------------------------------------- Router::run_inner
\* line 169: consume() at the top; None sends the thread to the blocking recv
RunTop ==
    /\ pc = "top"
    /\ panic = ""
    /\ \E c \in { consume(R) } :
          /\ Install(c.s)
          /\ pc' = IF c.some THEN "drain" ELSE "recv"
    /\ UNCHANGED << polls, ready_inflight, events_sent, last >>

\* lines 171-172 and 181-182: an event is received and handled
AtEvents == pc \in { "recv", "drain" } /\ panic = ""

\* the links send at most MaxEvents Connect, DeviceData and Disconnect events
TakeEvent == events_sent < MaxEvents /\ events_sent' = events_sent + 1

EvConnect(Conns) ==
    /\ AtEvents
    /\ TakeEvent
    /\ \E c \in Conns :
          /\ connection_map[c.client_id] = None
          /\ Install(handle_new_connection(R, c))
          /\ last' = [ NoEvent EXCEPT !.ev = "Connect",
                          !.id = SlabNextKey(connections),
                          !.client = c.client_id, !.clean = c.clean,
                          !.saved = IsSome(graveyard[c.client_id]),
                          !.again = /\ last.ev = "DeviceData" /\ last.removed
                                    /\ last.id = SlabNextKey(connections) ]
    /\ pc' = "drain"
    /\ UNCHANGED << polls, ready_inflight >>

EvDeviceData(Batches, Orders) ==
    /\ AtEvents
    /\ TakeEvent
    /\ \E id \in ConnIds, packets \in Batches, ho \in Orders :
          \E s \in { handle_device_payload(R, id, packets, ho) } :
              /\ Bounded(s)
              /\ Install(s)
              /\ last' = [ NoEvent EXCEPT !.ev = "DeviceData", !.id = id,
                              !.packets = packets,
                              !.removed = HasOutgoing(R, id) /\ ~HasOutgoing(s, id) ]
    /\ pc' = "drain"
    /\ UNCHANGED << polls, ready_inflight >>

EvDisconnect(Orders) ==
    /\ AtEvents
    /\ TakeEvent
    /\ \E id \in ConnIds, execute_will \in BOOLEAN, ho \in Orders :
          \E s \in { handle_disconnection(R, id, execute_will, ho) } :
              /\ Bounded(s)
              /\ Install(s)
              /\ last' = [ NoEvent EXCEPT !.ev = "Disconnect", !.id = id,
                              !.execute_will = execute_will,
                              !.removed = HasOutgoing(R, id) /\ ~HasOutgoing(s, id),
                              !.again = /\ last.ev = "DeviceData" /\ last.id = id
                                        /\ last.removed
                                        /\ last.packets = << [ type |-> "Disconnect" ] >> ]
    /\ pc' = "drain"
    /\ UNCHANGED << polls, ready_inflight >>

\* line 208: Event::Ready
EvReady ==
    /\ AtEvents
    /\ \E id \in ready_inflight :
          /\ Install(reschedule(R, id, "Ready"))
          /\ ready_inflight' = ready_inflight \ { id }
          /\ last' = [ NoEvent EXCEPT !.ev = "Ready", !.id = id ]
    /\ pc' = "drain"
    /\ UNCHANGED << polls, events_sent >>

\* lines 184-189: try_recv finds the channel empty; the debug assertion on
\* the ready queue; on to the poll loop
DrainDone ==
    /\ pc = "drain"
    /\ panic = ""
    /\ IF debug_build /\ ~check_readyqueue_duplicates(R)
       THEN /\ Install(Panic(R, "run_inner: debug assertion"))
            /\ pc' = pc
       ELSE /\ Install(R)
            /\ pc' = "poll"
    /\ polls' = 0
    /\ last' = NoEvent
    /\ UNCHANGED << ready_inflight, events_sent >>

\* lines 192-194: one consume() of the poll loop.  With an empty ready queue
\* the remaining calls of the loop change nothing and are taken at once.
PollLoop(n) ==
    /\ pc = "poll"
    /\ panic = ""
    /\ \E c \in { consume(R) } :
          /\ Install(c.s)
          /\ IF polls + 1 >= n \/ c.s.readyqueue = << >>
                \/ c.s.panic /= ""
             THEN pc' = "top" /\ polls' = 0
             ELSE pc' = "poll" /\ polls' = polls + 1
    /\ UNCHANGED << ready_inflight, events_sent, last >>

Poll == PollLoop(PollsPerIteration)

\* the link of connection id takes the notifications out of the shared
\* data_buffer; on Unschedule it sends Event::Ready to the router
LinkRecv ==
    /\ \E id \in ConnIds :
          /\ IsSome(obufs.ent[id])
          /\ Unwrap(obufs.ent[id]).data_buffer /= << >>
          /\ obufs' = SlabSet(obufs, id,
                [ Unwrap(obufs.ent[id]) EXCEPT !.data_buffer = << >> ])
          /\ ready_inflight' =
                IF [ kind |-> "Unschedule" ] \in Range(Unwrap(obufs.ent[id]).data_buffer)
                THEN ready_inflight \cup { id } ELSE ready_inflight
    /\ UNCHANGED << graveyard, connections, connection_map, subscription_map, ibufs,
                    native, filter_indexes, retained_publishes, publish_filters,
                    ackslog, trackers, readyqueue, notifications, panic,
                    debug_build, pc, polls, events_sent, last >>

\* ------------------------------------------------------------------- inputs
Conn(client_id, clean, last_will, tenant_prefix, dynamic_filters) ==
    [ client_id |-> client_id, clean |-> clean, subscriptions |-> { },
      last_will |-> last_will, tenant_prefix |-> tenant_prefix,
      dynamic_filters |-> dynamic_filters ]

Pub(topic, payload, qos, pkid, retain) ==
    [ type |-> "Publish",
      publish |-> [ topic |-> topic, payload |-> payload, qos |-> qos,
                    pkid |-> pkid, retain |-> retain ] ]
Sub(path, qos) ==
    [ type |-> "Subscribe", pkid |-> 1, filters |-> << [ path |-> path, qos |-> qos ] >> ]
Unsub(path) ==
    [ type |-> "Unsubscribe", pkid |-> 1, filters |-> << [ path |-> path ] >> ]
PubAckPkt(pkid) == [ type |-> "PubAck", pkid |-> pkid ]
PubRelPkt(pkid) == [ type |-> "PubRel", pkid |-> pkid ]
PingReq == [ type |-> "PingReq" ]
DisconnectPkt == [ type |-> "Disconnect" ]

Order(filters, topics, save_pauses) ==
    [ filters |-> filters, topics |-> topics, save_pauses |-> save_pauses ]

\* ----------------------------------------------------------- specifications
\* Sessions: client a connects with and without clean, client b with clean;
\* they subscribe to a/b, publish a retained message on a/b, and are
\* disconnected by the network or by their own Disconnect packet
ConnsSession ==
    { Conn("a", cl, None, None, FALSE) : cl \in BOOLEAN }
        \cup { Conn("b", TRUE, None, None, FALSE) }
BatchesSession ==
    { << Sub(FilterAB, 0) >>, << Pub(TopicAB, "x", 0, 0, TRUE) >>,
      << DisconnectPkt >> }
OrdersSession == { Order(<< FilterAB >>, << TopicAB >>, sp) : sp \in BOOLEAN }

Next ==
    \/ RunTop
    \/ EvConnect(ConnsSession)
    \/ EvDeviceData(BatchesSession, OrdersSession)
    \/ EvDisconnect(OrdersSession)
    \/ EvReady
    \/ DrainDone
    \/ Poll
    \/ LinkRecv

Spec == Init /\ [][Next]_vars

\* Resubscription: client a subscribes to a/b, unsubscribes, and sends a
\* publish on a/b alone or in one batch with Unsubscribe and Subscribe
ConnsResub == { Conn("a", cl, None, None, FALSE) : cl \in BOOLEAN }
BatchesResub ==
    { << Sub(FilterAB, 0) >>, << Unsub(FilterAB) >>,
      << Pub(TopicAB, "x", 0, 0, FALSE) >>,
      << Pub(TopicAB, "x", 0, 0, FALSE), Unsub(FilterAB), Sub(FilterAB, 0) >> }

NextResub ==
    \/ RunTop
    \/ EvConnect(ConnsResub)
    \/ EvDeviceData(BatchesResub, OrdersSession)
    \/ EvDisconnect(OrdersSession)
    \/ EvReady
    \/ DrainDone
    \/ Poll
    \/ LinkRecv

SpecResub == Init /\ [][NextResub]_vars

\* Fan-out: client a subscribes to a/b, a/+ and #, in any order, and
\* publishes on a/b and a/c; the filter map is iterated in any order
TopicsFanout == { TopicAB, TopicAC }
FiltersFanout == { FilterAB, FilterAPlus, FilterAll }
ConnsFanout == { Conn("a", TRUE, None, None, FALSE) }
BatchesFanout ==
    { << Sub(f, 0) >> : f \in FiltersFanout }
        \cup { << Pub(tp, "x", 0, 0, FALSE) >> : tp \in TopicsFanout }
OrdersFanout ==
    { Order(fs, << TopicAB, TopicAC >>, TRUE) :
        fs \in { p \in [ 1 .. 3 -> FiltersFanout ] : Range(p) = FiltersFanout } }

NextFanout ==
    \/ RunTop
    \/ EvConnect(ConnsFanout)
    \/ EvDeviceData(BatchesFanout, OrdersFanout)
    \/ EvDisconnect(OrdersFanout)
    \/ EvReady
    \/ DrainDone
    \/ Poll
    \/ LinkRecv

SpecFanout == Init /\ [][NextFanout]_vars

\* QoS 2: client a subscribes to a/b and publishes on a/b with QoS 2 and
\* packet id 3, possibly twice, then releases it with PubRel
PubQos2 == Pub(TopicAB, "x", 2, 3, FALSE)
ConnsQos2 == { Conn("a", TRUE, None, None, FALSE) }
BatchesQos2 ==
    { << Sub(FilterAB, 0) >>, << PubQos2 >>, << PubRelPkt(PubQos2.publish.pkid) >> }
OrdersQos2 == { Order(<< FilterAB >>, << TopicAB >>, TRUE) }

NextQos2 ==
    \/ RunTop
    \/ EvConnect(ConnsQos2)
    \/ EvDeviceData(BatchesQos2, OrdersQos2)
    \/ EvDisconnect(OrdersQos2)
    \/ EvReady
    \/ DrainDone
    \/ Poll
    \/ LinkRecv

SpecQos2 == Init /\ [][NextQos2]_vars

\* Retained replay: clients a and b publish a retained message on a/b, clear
\* it with an empty payload, and subscribe to a/+; nobody disconnects.  The
\* router thread keeps running, the links keep reading their buffers, and a
\* Ready message that was sent is received
ConnsRetained == { Conn(c, TRUE, None, None, FALSE) : c \in { "a", "b" } }
FiltersRetained == { FilterAPlus }
BatchesRetained ==
    { << Pub(TopicAB, "x", 0, 0, TRUE) >>, << Pub(TopicAB, "", 0, 0, TRUE) >> }
        \cup { << Sub(f, 0) >> : f \in FiltersRetained }
OrdersRetained == { Order(<< FilterAPlus >>, << TopicAB >>, TRUE) }

NextRetained ==
    \/ RunTop
    \/ EvConnect(ConnsRetained)
    \/ EvDeviceData(BatchesRetained, OrdersRetained)
    \/ EvReady
    \/ DrainDone
    \/ Poll
    \/ LinkRecv

\* the position of the router thread in run_inner
thread == << pc, polls >>

\* the router thread moves on: from the top of the loop, from the drain of
\* the channel or within the poll loop.  These are the steps RunTop,
\* DrainDone and Poll, which are enabled wherever the thread stands there
\* (a failing debug assertion at the end of the drain stops the thread)
ThreadStep ==
    /\ panic = ""
    /\ pc \in { "top", "drain", "poll" }
    /\ pc = "drain" => ~(debug_build /\ ~check_readyqueue_duplicates(R))
    /\ pc' \in { "top", "drain", "poll", "recv" }
    /\ polls' \in 0 .. PollsPerIteration

\* a Ready message leaves the channel: the step EvReady
ReadyTaken ==
    /\ AtEvents
    /\ \E id \in ready_inflight : ready_inflight' = ready_inflight \ { id }

\* the router thread is scheduled, every link reads its buffer, and a Ready
\* message in the channel is received by one of the recv calls of the loop
FairRetained ==
    /\ WF_thread(ThreadStep)
    /\ WF_vars(LinkRecv)
    /\ SF_ready_inflight(ReadyTaken)

SpecRetained == Init /\ [][NextRetained]_vars /\ FairRetained

\* Publishers: client a, with and without dynamic filters, and client b,
\* whose tenant prefix b matches none of the topics; they publish on a/b
\* with and without retain, with an empty payload and with QoS 2, and
\* subscribe to a/b
PubRetainQos2 == Pub(TopicAB, "z", 2, 3, TRUE)
ConnsPublish ==
    { Conn("a", TRUE, None, None, dyn) : dyn \in BOOLEAN }
        \cup { Conn("b", TRUE, None, Some(<< "b" >>), FALSE) }
BatchesPublish ==
    { << Pub(TopicAB, "x", 0, 0, TRUE) >>, << Pub(TopicAB, "", 0, 0, FALSE) >>,
      << Pub(TopicAB, "y", 1, 1, FALSE) >>, << PubRetainQos2 >>,
      << PubRelPkt(PubRetainQos2.publish.pkid) >>, << Sub(FilterAB, 0) >> }

NextPublish ==
    \/ RunTop
    \/ EvConnect(ConnsPublish)
    \/ EvDeviceData(BatchesPublish, OrdersQos2)
    \/ EvReady
    \/ DrainDone
    \/ Poll
    \/ LinkRecv

SpecPublish == Init /\ [][NextPublish]_vars

\* Batches: client a subscribes to a/b; sends a Subscribe whose second
\* filter asks for QoS 2; sends an invalid Subscribe followed by a retained
\* publish; sends a QoS 1 publish followed by a PubRel that releases nothing
SubPartial ==
    [ type |-> "Subscribe", pkid |-> 1,
      filters |-> << [ path |-> FilterAB, qos |-> 0 ],
                     [ path |-> FilterAPlus, qos |-> 2 ] >> ]
BatchesBatch ==
    { << Sub(FilterAB, 0) >>, << SubPartial >>,
      << Sub(FilterAPlus, 2), Pub(TopicAB, "x", 0, 0, TRUE) >>,
      << Pub(TopicAB, "y", 1, 1, FALSE), PubRelPkt(3) >> }
OrdersBatch == { Order(<< FilterAB, FilterAPlus >>, << TopicAB >>, TRUE) }

NextBatch ==
    \/ RunTop
    \/ EvConnect(ConnsQos2)
    \/ EvDeviceData(BatchesBatch, OrdersBatch)
    \/ EvReady
    \/ DrainDone
    \/ Poll
    \/ LinkRecv

SpecBatch == Init /\ [][NextBatch]_vars

\* ------------------------------------------------------------------ claims
\* Wills and tenants: client a and client b of tenant b, both with a last
\* will on a/b, which is outside the prefix of b as are the publishes of b;
\* they subscribe to a/b, publish on a/b at QoS 0 and 2, release the QoS 2
\* publish, and leave by a Disconnect packet, by a protocol error or by a
\* Disconnect event
ConnsWill ==
    { Conn(c[1], TRUE,
           Some([ topic |-> TopicAB, message |-> "w", qos |-> 0, retain |-> FALSE ]),
           c[2], FALSE) :
        c \in { << "a", None >>, << "b", Some(<< "b" >>) >> } }
BatchesWill ==
    { << Sub(FilterAB, 0) >>, << Pub(TopicAB, "x", 0, 0, TRUE) >>, << PubQos2 >>,
      << PubRelPkt(PubQos2.publish.pkid) >>, << DisconnectPkt >> }

NextWill ==
    \/ RunTop
    \/ EvConnect(ConnsWill)
    \/ EvDeviceData(BatchesWill, OrdersQos2)
    \/ EvDisconnect(OrdersQos2)
    \/ EvReady
    \/ DrainDone
    \/ Poll
    \/ LinkRecv

SpecWill == Init /\ [][NextWill]_vars

\* Full house: three clients, a with a persistent session, compete for the
\* max_connections slots of the router
ConnsFull ==
    { Conn("a", FALSE, None, None, FALSE), Conn("b", TRUE, None, None, FALSE),
      Conn("c", TRUE, None, None, FALSE) }

NextFull ==
    \/ RunTop
    \/ EvConnect(ConnsFull)
    \/ EvDeviceData(BatchesSession, OrdersQos2)
    \/ EvDisconnect(OrdersQos2)
    \/ EvReady
    \/ DrainDone
    \/ Poll
    \/ LinkRecv

SpecFull == Init /\ [][NextFull]_vars

\* QoS 1: client a subscribes to a/b and a/+ with QoS 1 or to a/b with
\* QoS 0, publishes on a/b with QoS 0 and 1, and acknowledges the forwards
\* with packet ids 1 and 2
BatchesQos1 ==
    { << Sub(FilterAB, 1), Sub(FilterAPlus, 1) >>, << Sub(FilterAB, 0) >>,
      << Pub(TopicAB, "x", 0, 0, FALSE) >>, << Pub(TopicAB, "y", 1, 1, FALSE) >>,
      << PubAckPkt(1) >>, << PubAckPkt(2) >> }

NextQos1 ==
    \/ RunTop
    \/ EvConnect(ConnsResub)
    \/ EvDeviceData(BatchesQos1, OrdersQos2)
    \/ EvDisconnect(OrdersQos2)
    \/ EvReady
    \/ DrainDone
    \/ Poll
    \/ LinkRecv

SpecQos1 == Init /\ [][NextQos1]_vars

\* The full house with a router thread that keeps running (to the debug
\* assertion at the end of the drain, if it fails), links that read their
\* buffers and Ready messages that are received
SpecFullFair ==
    Init /\ [][NextFull]_vars /\ FairRetained /\ WF_vars(DrainDone)

\* Releases: client a publishes on a/b with QoS 2 under the packet ids 3
\* and 4 and releases them with PubRel in any order
BatchesRel ==
    { << Sub(FilterAB, 0) >>, << PubQos2 >>, << Pub(TopicAB, "y", 2, 4, FALSE) >>,
      << PubRelPkt(3) >>, << PubRelPkt(4) >> }

NextRel ==
    \/ RunTop
    \/ EvConnect(ConnsQos2)
    \/ EvDeviceData(BatchesRel, OrdersQos2)
    \/ EvDisconnect(OrdersQos2)
    \/ EvReady
    \/ DrainDone
    \/ Poll
    \/ LinkRecv

SpecRel == Init /\ [][NextRel]_vars

\* Short poll loop: the clients of the full house with the poll loop of
\* run_inner scaled down as max_connections is, so that the loop can end
\* with ids left in the ready queue
NextPoll ==
    \/ RunTop
    \/ EvConnect(ConnsFull)
    \/ EvDeviceData(BatchesSession, OrdersQos2)
    \/ EvDisconnect(OrdersQos2)
    \/ EvReady
    \/ DrainDone
    \/ PollLoop(PollsScaled)
    \/ LinkRecv

SpecPoll == Init /\ [][NextPoll]_vars

\* C1: in every reachable state no ConnectionId appears more than once in
\* scheduler.readyqueue
C1_ReadyQueueUnique == check_readyqueue_duplicates(R)

\* C2: in every reachable state, no two DataRequests in the tracker queue of
\* a live connection have the same filter_idx
C2_TrackerFilterUnique ==
    \A id \in ConnIds : HasTracker(R, id) => check_tracker_duplicates(R, id)

\* the step is Router::events taking a DeviceData event of a live connection
\* whose batch is the one packet of type type
TakesPacket(type) ==
    /\ events_sent' = events_sent + 1
    /\ last'.ev = "DeviceData"
    /\ HasOutgoing(R, last'.id)
    /\ Len(last'.packets) = 1
    /\ last'.packets[1].type = type

\* the filter indexes whose filter matches topic
MatchingFilters(topic) ==
    { i \in 1 .. Len(native) : matches(topic, native[i].filter) }

C3_FanoutStep ==
    TakesPacket("Publish") /\ last'.packets[1].publish.qos /= 2 =>
        LET publish == last'.packets[1].publish
            item == [ publish EXCEPT !.retain = FALSE ]
        IN  /\ Len(native') = Len(native)
            /\ \A i \in 1 .. Len(native) :
                  native'[i].log =
                      IF i \in MatchingFilters(publish.topic)
                      THEN Append(native[i].log, item)
                      ELSE native[i].log

C3_MatchesExact ==
    \A topic \in TopicsFanout, ho \in OrdersFanout :
        LET v == Unwrap(DataLogMatches(R, topic, ho.filters).ret)
        IN  NoDuplicates(v) /\ Range(v) = MatchingFilters(topic)

\* C3: a publish that append_to_commitlog accepts is appended once to the
\* log of every existing filter that matches its topic and to no other log,
\* and DataLog::matches returns exactly the indexes of the matching filters,
\* cached or not, whatever the iteration order of the filter map
C3_PublishFanout == [][C3_FanoutStep]_vars /\ []C3_MatchesExact

\* a publish on a/b has reached a filter that held an earlier publish and a
\* matching filter created after the topic was cached
C3_Witness ==
    /\ last.ev = "DeviceData"
    /\ last.packets = << Pub(TopicAB, "x", 0, 0, FALSE) >>
    /\ TopicAB \in DOMAIN publish_filters
    /\ \E i, j \in MatchingFilters(TopicAB) :
          Len(native[i].log) = 2 /\ Len(native[j].log) = 1

\* the pending data requests of connection id wherever the router holds
\* them: in its tracker, parked in a waiter queue, or in the notification list
TrackedRequests(id) ==
    IF HasTracker(R, id) THEN Range(TrackerOf(R, id).data_requests) ELSE { }
ParkedOn(id, i) ==
    { native[i].waiters[k].request :
        k \in { n \in 1 .. Len(native[i].waiters) : native[i].waiters[n].id = id } }
ParkedRequests(id) == UNION { ParkedOn(id, i) : i \in 1 .. Len(native) }
NotifiedRequests(id) ==
    { notifications[k].request :
        k \in { n \in 1 .. Len(notifications) : notifications[n].id = id } }

\* connection id holds a request on filter index i that has not read the
\* whole log
HasUndelivered(id, i) ==
    \E request \in TrackedRequests(id) \cup ParkedRequests(id)
                    \cup NotifiedRequests(id) :
        request.filter_idx = i /\ request.cursor < LogNextOffset(native[i].log)

\* C4: while the router runs, a connected subscriber with a clean session
\* that is caught up as far as its tracker knows is never left with undelivered entries on a filter it subscribes to while
\* it is neither in the ready queue nor parked as a waiter on that filter
\* (the state from which no fair step of the router, the writer or the
\* subscriber forwards the entries)
C4_NeverStranded ==
    \A id \in ConnIds :
        panic = "" /\ HasConnection(R, id) /\ HasTracker(R, id)
            /\ ConnectionOf(R, id).clean
            /\ TrackerOf(R, id).status = "Caughtup" =>
        \A f \in ConnectionOf(R, id).subscriptions :
            f \in DOMAIN filter_indexes /\ HasUndelivered(id, filter_indexes[f]) =>
                \/ id \in Range(readyqueue)
                \/ ParkedOn(id, filter_indexes[f]) /= { }

\* the positions in data_buffer that hold a Forward
ForwardsIn(buffer) == { k \in 1 .. Len(buffer) : buffer[k].kind = "Forward" }

\* C5: the publishes pushed to the outgoing buffer of a subscriber for one
\* filter are read at strictly increasing positions of the filter's log (none
\* is forwarded twice, none out of order), and no pending DataRequest has a
\* cursor beyond the log's next_offset
C5_ForwardsInOrder ==
    \A id \in ConnIds :
        /\ HasOutgoing(R, id) =>
              LET buffer == OutgoingOf(R, id).data_buffer
              IN  \A k1, k2 \in ForwardsIn(buffer) :
                      k1 < k2 /\ buffer[k1].from[1] = buffer[k2].from[1] =>
                          buffer[k1].from[2] < buffer[k2].from[2]
        /\ \A request \in TrackedRequests(id) \cup ParkedRequests(id)
                            \cup NotifiedRequests(id) :
              request.cursor <= LogNextOffset(native[request.filter_idx].log)

\* the publishes recorded in the ack log of connection id
RecordedOf(logs, id) == Unwrap(logs.ent[id]).recorded

\* C6: a step that takes a QoS 2 Publish from a connection changes no filter
\* log; the publish is added to the recorded queue of that connection's ack
\* log and to nothing else of the data log
C6_Qos2NotAppendedOnReceipt ==
    [][ TakesPacket("Publish") /\ last'.packets[1].publish.qos = 2 =>
            /\ native' = native
            /\ retained_publishes' = retained_publishes
            /\ RecordedOf(ackslog', last'.id) =
                  Append(RecordedOf(ackslog, last'.id), last'.packets[1].publish)
      ]_vars

\* a QoS 2 Publish on a/b has just been taken while a/b has a subscriber's
\* filter log: it is recorded and the log is still empty
C6_Witness ==
    /\ last.ev = "DeviceData"
    /\ last.packets = << PubQos2 >>
    /\ HasAckLog(R, last.id)
    /\ RecordedOf(ackslog, last.id) = << PubQos2.publish >>
    /\ MatchingFilters(TopicAB) /= { }
    /\ \A i \in MatchingFilters(TopicAB) : native[i].log = << >>

\* C7: a step that takes PubRel(pkid) from a connection that has a publish
\* recorded appends one publish to each matching filter log, and completes
\* the exchange of that pkid: no publish with the pkid stays recorded, so
\* that a duplicate Publish received before the PubRel is appended neither
\* by this PubRel nor by a later one
C7_Qos2AppendedOnce ==
    [][ TakesPacket("PubRel") /\ RecordedOf(ackslog, last'.id) /= << >> =>
            /\ \A i \in 1 .. Len(native) :
                  Len(native'[i].log) = Len(native[i].log) +
                      (IF matches(Head(RecordedOf(ackslog, last'.id)).topic,
                                  native[i].filter) THEN 1 ELSE 0)
            /\ IsSome(ackslog'.ent[last'.id]) =>
                  \A k \in 1 .. Len(RecordedOf(ackslog', last'.id)) :
                      RecordedOf(ackslog', last'.id)[k].pkid /= last'.packets[1].pkid
      ]_vars

\* the (filter, cursor) pairs of a set of data requests
Pairs(requests) == { << request.filter, request.cursor >> : request \in requests }

\* the pending data requests of connection id: in its tracker, parked as
\* waiters, or woken into the notification list
PendingRequests(id) ==
    TrackedRequests(id) \cup ParkedRequests(id) \cup NotifiedRequests(id)

\* the step handles the disconnection of a connection that was opened with
\* clean = false
RemovesPersistent ==
    /\ events_sent' = events_sent + 1
    /\ last'.removed
    /\ ~ConnectionOf(R, last'.id).clean

\* the step handles a Connect with clean = false of a client with saved state
RestoresPersistent ==
    /\ events_sent' = events_sent + 1
    /\ last'.ev = "Connect" /\ ~last'.clean /\ last'.saved
    /\ IsSome(trackers'.ent[last'.id])

\* C8: when a connection opened with clean = false is disconnected, the
\* (filter, cursor) pairs saved for its client are exactly those of its
\* pending data requests, wherever they sit; and when the client connects
\* again with clean = false its tracker holds exactly the saved pairs
C8_SessionResumption ==
    [][ /\ RemovesPersistent =>
              /\ IsSome(graveyard'[OutgoingOf(R, last'.id).client_id])
              /\ Pairs(Range(Unwrap(graveyard'[OutgoingOf(R, last'.id).client_id])
                                .tracker.data_requests))
                    = Pairs(PendingRequests(last'.id))
        /\ RestoresPersistent =>
              Pairs(Range(Unwrap(trackers'.ent[last'.id]).data_requests))
                = Pairs(Range(Unwrap(graveyard[last'.client]).tracker.data_requests))
      ]_vars

\* C9: right after a Connect with clean = true of a client that had saved
\* state, the tracker of the new connection has no data requests, the
\* connection has no subscriptions, and no filter has it as a waiter
C9_CleanSessionWipe ==
    last.ev = "Connect" /\ last.clean /\ last.saved /\ HasTracker(R, last.id) =>
        /\ TrackerOf(R, last.id).data_requests = << >>
        /\ ConnectionOf(R, last.id).subscriptions = { }
        /\ ParkedRequests(last.id) = { }

\* client a, which subscribed to a/b in an earlier session, has just
\* connected with clean = true and found saved state
C9_Witness ==
    /\ last.ev = "Connect" /\ last.clean /\ last.saved /\ last.client = "a"
    /\ HasTracker(R, last.id) /\ HasConnection(R, last.id)
    /\ TrackerOf(R, last.id).id = "a"
    /\ FilterAB \in DOMAIN filter_indexes

\* C10: once the disconnection of a connection has been handled, no waiter
\* queue and no entry of the notification list names its id
C10_DisconnectCancels ==
    last.removed => ParkedRequests(last.id) = { } /\ NotifiedRequests(last.id) = { }

\* the step takes a Subscribe to a filter the connection is not subscribed to
SubscribesFresh ==
    /\ TakesPacket("Subscribe")
    /\ last'.packets[1].filters[1].path \notin ConnectionOf(R, last'.id).subscriptions
    /\ IsSome(trackers'.ent[last'.id])

\* after a fresh Subscribe to f: every retained publish whose topic matches
\* f has a copy in the log of f at or after the cursor of a request on f in
\* the subscriber's tracker, and what the Subscribe appended to the log of f
\* are retained publishes of the store only
C11_ReplayStep ==
    SubscribesFresh =>
        LET f == last'.packets[1].filters[1].path
            idx == filter_indexes'[f]
            before == IF f \in DOMAIN filter_indexes
                      THEN Len(native[filter_indexes[f]].log) ELSE 0
        IN  /\ \A tp \in DOMAIN retained_publishes :
                  matches(tp, f) =>
                      \E request \in Range(Unwrap(trackers'.ent[last'.id]).data_requests) :
                          /\ request.filter = f
                          /\ \E k \in (request.cursor + 1) .. Len(native'[idx].log) :
                                native'[idx].log[k] = retained_publishes[tp]
            /\ \A k \in (before + 1) .. Len(native'[idx].log) :
                  \E tp \in DOMAIN retained_publishes :
                      matches(tp, f) /\ native'[idx].log[k] = retained_publishes[tp]

\* entry k of filter log i is a replayed retained publish that a request in
\* the tracker of connection id has still to read
ReplayPending(id, i, k) ==
    /\ i <= Len(native) /\ k <= Len(native[i].log)
    /\ native[i].log[k].retain
    /\ \E request \in TrackedRequests(id) :
          request.filter_idx = i /\ request.cursor < k

\* the outgoing buffer of connection id holds the Forward of entry k of
\* filter log i
ReplayForwarded(id, i, k) ==
    /\ HasOutgoing(R, id)
    /\ \E n \in ForwardsIn(OutgoingOf(R, id).data_buffer) :
          OutgoingOf(R, id).data_buffer[n].from = << i, k - 1 >>

StoreAfter(store, conn, publish) ==
    IF IsSome(conn.tenant_prefix)
       /\ ~StartsWith(publish.topic, Unwrap(conn.tenant_prefix))
    THEN store
    ELSE IF publish.payload = ""
    THEN [ tp \in DOMAIN store \ { publish.topic } |-> store[tp] ]
    ELSE IF publish.retain
    THEN [ tp \in DOMAIN store \cup { publish.topic } |->
             IF tp = publish.topic THEN publish ELSE store[tp] ]
    ELSE store

PublishesUnmatched(dyn) ==
    /\ TakesPacket("Publish")
    /\ last'.packets[1].publish.qos /= 2
    /\ ConnectionOf(R, last'.id).dynamic_filters = dyn
    /\ ~IsSome(ConnectionOf(R, last'.id).tenant_prefix)
    /\ MatchingFilters(last'.packets[1].publish.topic) = { }

\* C13: a publish to a topic no filter matches, from a connection without
\* dynamic filters, appends nothing and gets the connection disconnected
C13_NoMatchingFilters ==
    [][ PublishesUnmatched(FALSE) => native' = native /\ last'.removed ]_vars

\* C14: a publish to a topic no filter matches, from a connection with
\* dynamic filters, creates the filter equal to the topic and appends the
\* publish to its log
C14_DynamicFilter ==
    [][ PublishesUnmatched(TRUE) =>
            LET topic == last'.packets[1].publish.topic
            IN  /\ topic \in DOMAIN filter_indexes'
                /\ native'[filter_indexes'[topic]].log =
                      << [ last'.packets[1].publish EXCEPT !.retain = FALSE ] >>
      ]_vars

\* the step is Router::events taking a DeviceData event of a live connection
TakesBatch ==
    /\ events_sent' = events_sent + 1
    /\ last'.ev = "DeviceData"
    /\ HasOutgoing(R, last'.id)

\* the first packet of the batch sets the disconnect flag
FirstPacketFails ==
    \E ho \in OrdersBatch :
        HandlePacket(R, LocalsInit, last'.id, Head(last'.packets), ho).l.disconnect

\* C15: a Subscribe with a filter that fails validation gets the connection
\* disconnected, and its arm leaves the ack log of the connection as it
\* was: no SubAck, full or partial, is enqueued
C15_NoPartialSubAck ==
    [][ /\ TakesBatch
        /\ Head(last'.packets).type = "Subscribe"
        /\ \E k \in 1 .. Len(Head(last'.packets).filters) :
              validate_subscription(ConnectionOf(R, last'.id),
                                    Head(last'.packets).filters[k]) /= "Ok"
        => /\ last'.removed
           /\ \A ho \in OrdersBatch :
                 AckLogOf(HandlePacket(R, LocalsInit, last'.id,
                                       Head(last'.packets), ho).s,
                          last'.id).committed
                   = AckLogOf(R, last'.id).committed
      ]_vars

\* C16: when the first packet of a batch fails, the router is left as the
\* batch of that packet alone leaves it: no later packet is processed
C16_BatchAborts ==
    [][ TakesBatch /\ Len(last'.packets) > 1 /\ FirstPacketFails =>
            \E ho \in OrdersBatch :
                R' = handle_device_payload(R, last'.id,
                                           << Head(last'.packets) >>, ho)
      ]_vars

\* C17: when a later packet of a batch fails and the connection is
\* disconnected, the waiters woken by the appends of the packets before it
\* have left the notification list, and none of the acks enqueued for those
\* packets is still in the ack log that is removed with the connection
C17_EarnedEffectsKept ==
    [][ TakesBatch /\ Len(last'.packets) > 1 /\ ~FirstPacketFails
            /\ last'.removed =>
            \A ho \in OrdersBatch :
                /\ ProcessPackets(R, LocalsInit, last'.id, last'.packets, ho)
                      .l.new_data => notifications' = << >>
                /\ AckLogOf(ProcessPackets(R, LocalsInit, last'.id,
                                           last'.packets, ho).s,
                            last'.id).committed
                      = AckLogOf(R, last'.id).committed
      ]_vars

\* C18: a step that handles a DeviceData, Disconnect or Ready event whose
\* ConnectionId has no connection leaves the router state unchanged, and the
\* router does not panic
HandlesStaleEvent ==
    /\ last'.ev \in { "DeviceData", "Disconnect", "Ready" }
    /\ \/ events_sent' /= events_sent
       \/ ready_inflight' /= ready_inflight /\ ready_inflight' \subseteq ready_inflight
    /\ ~HasOutgoing(R, last'.id)
C18_StaleEventNoOp ==
    [][ HandlesStaleEvent => R' = R /\ panic' = "" ]_vars

\* C19: a Disconnect event for a connection id that is no longer in the
\* router, as when the client's Disconnect packet removed it first, changes
\* nothing: the graveyard, the filter logs, the waiters and the ready queue
\* are as the first handling left them
C19_DisconnectIdempotent ==
    [][ /\ last'.ev = "Disconnect"
        /\ events_sent' /= events_sent
        /\ ~HasOutgoing(R, last'.id)
        => /\ graveyard' = graveyard
           /\ native' = native
           /\ retained_publishes' = retained_publishes
           /\ readyqueue' = readyqueue
           /\ notifications' = notifications
           /\ R' = R
      ]_vars

\* the Disconnect event right after the batch whose Disconnect packet
\* removed the same connection, with its session in the graveyard
C19_Witness ==
    /\ last.ev = "Disconnect"
    /\ last.again
    /\ ~HasOutgoing(R, last.id)
    /\ \E c \in ClientIds : IsSome(graveyard[c])

\* the step handles a batch that is one Unsubscribe for a/b, sent by a
\* connection whose subscription set contains a/b
UnsubscribesSubscribed ==
    /\ last'.ev = "DeviceData"
    /\ events_sent' /= events_sent
    /\ last'.packets = << Unsub(FilterAB) >>
    /\ HasOutgoing(R, last'.id)
    /\ FilterAB \in ConnectionOf(R, last'.id).subscriptions

\* C20: after an Unsubscribe for a filter of the connection's subscription
\* set, subscribed in this connection or restored from the saved session, the
\* filter has left the subscription set, the id has left subscription_map of
\* the filter, no DataRequest for the filter is in the tracker, parked as a
\* waiter or woken for the connection, and an UnsubAck is enqueued
C20_UnsubscribeRemoves ==
    [][ UnsubscribesSubscribed =>
            /\ HasOutgoing(R', last'.id)
            /\ FilterAB \notin ConnectionOf(R', last'.id).subscriptions
            /\ FilterAB \in DOMAIN subscription_map' =>
                   last'.id \notin subscription_map'[FilterAB]
            /\ \A id \in ConnIds : id = last'.id =>
                   \A request \in PendingRequests(id)' :
                       request.filter /= FilterAB
            /\ \E k \in 1 .. Len(AckLogOf(R', last'.id).committed) :
                   AckLogOf(R', last'.id).committed[k].type = "UnsubAck"
      ]_vars

\* the slabs that hold an entry under ConnectionId c
SlabsHolding(c) ==
    { k \in 1 .. 5 :
        IsSome(<< connections, ibufs, obufs, ackslog, trackers >>[k].ent[c]) }

\* C21: a ConnectionId is in all of connections, ibufs, obufs, ackslog and
\* scheduler.trackers or in none of them, the five slabs hand out the same
\* next key, and the assert_eq! checks of handle_new_connection have not
\* failed
C21_SlabsInSync ==
    /\ \A c \in ConnIds : SlabsHolding(c) \in { { }, 1 .. 5 }
    /\ \A sl \in { ibufs, obufs, ackslog, trackers } :
           SlabNextKey(sl) = SlabNextKey(connections)
    /\ panic /= "handle_new_connection: assert_eq failed"

\* a connection was removed and its ConnectionId given to the next one,
\* while another connection stays
C21_Witness ==
    /\ last.ev = "Connect"
    /\ last.id = 0
    /\ SlabsHolding(0) = 1 .. 5
    /\ SlabsHolding(1) = 1 .. 5
    /\ connections.free = << >>
    /\ \E c \in ClientIds : IsSome(graveyard[c])

\* the step handles a Connect event that finds max_connections connections
ConnectsWhenFull ==
    /\ events_sent' /= events_sent
    /\ last'.ev = "Connect"
    /\ SlabLen(connections) >= MaxConnections

\* C22: the live connections never exceed max_connections, and a Connect
\* event that finds max_connections connections changes nothing: the
\* graveyard entry of its client id, the slabs, the ready queue and the ack
\* logs stay as they are
C22_MaxConnections ==
    /\ [](SlabLen(connections) <= MaxConnections)
    /\ [][ ConnectsWhenFull =>
                /\ graveyard' = graveyard
                /\ readyqueue' = readyqueue
                /\ ackslog' = ackslog
                /\ R' = R ]_vars

\* a refused Connect of the client whose session is in the graveyard
C22_Witness ==
    /\ last.ev = "Connect"
    /\ last.client = "a"
    /\ last.saved
    /\ connection_map["a"] = None
    /\ SlabLen(connections) = MaxConnections
    /\ IsSome(graveyard["a"])

\* connection id of the router state before the step has a tenant prefix
\* that the topic does not start with
OffPrefix(id, topic) ==
    /\ HasConnection(R, id)
    /\ IsSome(ConnectionOf(R, id).tenant_prefix)
    /\ \E prefix \in { Unwrap(ConnectionOf(R, id).tenant_prefix) } :
           \/ Len(prefix) > Len(topic)
           \/ SubSeq(topic, 1, Len(prefix)) /= prefix

\* the step takes a batch of one packet, of the given type
TakesOne(type) ==
    /\ events_sent' /= events_sent
    /\ last'.ev = "DeviceData"
    /\ Len(last'.packets) = 1
    /\ last'.packets[1].type = type

\* the step takes a QoS 0 or 1 publish outside the sender's prefix
PublishesOffPrefix ==
    /\ TakesOne("Publish")
    /\ last'.packets[1].publish.qos /= 2
    /\ OffPrefix(last'.id, last'.packets[1].publish.topic)

\* the step takes the PubRel of a recorded publish outside the sender's prefix
ReleasesOffPrefix ==
    /\ TakesOne("PubRel")
    /\ HasAckLog(R, last'.id)
    /\ RecordedOf(ackslog, last'.id) /= << >>
    /\ Head(RecordedOf(ackslog, last'.id)).pkid = last'.packets[1].pkid
    /\ OffPrefix(last'.id, Head(RecordedOf(ackslog, last'.id)).topic)

\* the step removes a connection and executes its last will
ExecutesWill ==
    /\ events_sent' /= events_sent
    /\ last'.removed
    /\ IsSome(ConnectionOf(R, last'.id).last_will)
    /\ \/ last'.ev = "Disconnect" /\ last'.execute_will
       \/ last'.ev = "DeviceData" /\ last'.packets /= << DisconnectPkt >>

\* C23: a publish outside the tenant prefix of its connection (a QoS 0 or 1
\* publish, a QoS 2 publish at its PubRel, a last will) is appended to no
\* filter log, leaves the retained store as it is and wakes no waiter; the
\* connection is removed and no other connection is touched
C23_BadTenant ==
    [][ \/ PublishesOffPrefix
        \/ ReleasesOffPrefix
        \/ ExecutesWill /\ OffPrefix(last'.id, Unwrap(ConnectionOf(R, last'.id).last_will).topic)
        => /\ Len(native') = Len(native)
           /\ \A i \in 1 .. Len(native) :
                 /\ native'[i].log = native[i].log
                 /\ WaitersWithout(native'[i].waiters, last'.id)
                       = WaitersWithout(native[i].waiters, last'.id)
           /\ retained_publishes' = retained_publishes
           /\ notifications' = notifications
           /\ last'.removed
           /\ \A other \in ConnIds \ { last'.id } :
                 /\ connections'.ent[other] = connections.ent[other]
                 /\ obufs'.ent[other] = obufs.ent[other]
                 /\ trackers'.ent[other] = trackers.ent[other]
      ]_vars

\* the tenant's retained publish on a/b was refused while the other client
\* waits for data on a/b
C23_Witness ==
    /\ last.ev = "DeviceData"
    /\ last.removed
    /\ last.packets = << Pub(TopicAB, "x", 0, 0, TRUE) >>
    /\ connection_map["b"] = None
    /\ IsSome(connection_map["a"])
    /\ retained_publishes = << >>
    /\ \E i \in 1 .. Len(native) :
          native[i].log = << >> /\ native[i].waiters /= << >>

\* the last wills among the records of a filter log
WillCount(log) == Cardinality({ k \in 1 .. Len(log) : log[k].payload = "w" })

\* the step executes a last will that filter log i is to receive
WillDue(i) ==
    /\ ExecutesWill
    /\ ~OffPrefix(last'.id, Unwrap(ConnectionOf(R, last'.id).last_will).topic)
    /\ matches(Unwrap(ConnectionOf(R, last'.id).last_will).topic, native[i].filter)

\* C24: a step appends a last will to a filter log exactly when it removes a
\* connection that has a last will matching the filter, by a Disconnect
\* event with execute_will or by a protocol error in a batch, and then once;
\* no other step, a Disconnect packet and the Disconnect events after it
\* included, appends a last will
C24_LastWillOnce ==
    [][ /\ Len(native') >= Len(native)
        /\ \A i \in 1 .. Len(native') :
              WillCount(native'[i].log) =
                  IF i > Len(native) THEN 0
                  ELSE WillCount(native[i].log) + (IF WillDue(i) THEN 1 ELSE 0)
      ]_vars

\* the last will of client a is in the log of a/b after a Disconnect event
\* with execute_will removed the connection
C24_Witness ==
    /\ last.ev = "Disconnect"
    /\ last.removed
    /\ last.execute_will
    /\ connection_map["a"] = None
    /\ \E i \in 1 .. Len(native) : WillCount(native[i].log) = 1

\* the step is one call of consume(), at the top of run_inner or in its
\* poll loop
Consumes == pc \in { "top", "poll" } /\ (pc' /= pc \/ polls' /= polls)

\* the outgoing buffer of connection id grows by exactly the pending acks of
\* its ack log, in their order, and then by notifications that are not acks
AcksThenForwards(id, before, acks, after) ==
    /\ Len(after) >= Len(before) + Len(acks)
    /\ SubSeq(after, 1, Len(before)) = before
    /\ \A k \in 1 .. Len(acks) :
          after[Len(before) + k] = [ kind |-> "DeviceAck", ack |-> acks[k] ]
    /\ \A k \in (Len(before) + Len(acks) + 1) .. Len(after) :
          after[k].kind /= "DeviceAck"

\* C25: a consume step of a connection moves all the pending acks of its ack
\* log to its outgoing buffer, in the order they were enqueued and before
\* the forwards of that step, however full the buffer is, and empties the
\* ack log; no other step and no other connection's consume step adds an
\* ack to the buffer
C25_AcksInOrder ==
    [][ \A id \in ConnIds : HasOutgoing(R, id) /\ HasOutgoing(R', id) =>
            IF Consumes /\ poll(R).ret /= None /\ Unwrap(poll(R).ret).id = id
            THEN /\ AcksThenForwards(id, OutgoingOf(R, id).data_buffer,
                                     AckLogOf(R, id).committed,
                                     OutgoingOf(R', id).data_buffer)
                 /\ AckLogOf(R', id).committed = << >>
            ELSE CountAcks(OutgoingOf(R', id).data_buffer)
                     <= CountAcks(OutgoingOf(R, id).data_buffer)
      ]_vars

\* a consume step has pushed two acks and then a forward, which filled the
\* buffer, so that the connection is paused as Busy
C25_Witness ==
    \E id \in ConnIds :
        /\ HasOutgoing(R, id)
        /\ Len(OutgoingOf(R, id).data_buffer) >= MAX_CHANNEL_CAPACITY - 1
        /\ OutgoingOf(R, id).data_buffer[1].kind = "DeviceAck"
        /\ OutgoingOf(R, id).data_buffer[2].kind = "DeviceAck"
        /\ OutgoingOf(R, id).data_buffer[3].kind = "Forward"
        /\ AckLogOf(R, id).committed = << >>
        /\ TrackerOf(R, id).status = "Busy"

\* the (status, reason) pairs for which the claim says try_ready fires
FiringPairs ==
    { << "Busy", "Init" >>, << "Busy", "Ready" >>, << "Caughtup", "NewFilter" >>,
      << "Caughtup", "FreshData" >>, << "InflightFull", "IncomingAck" >> }

\* the pairs of the Init and Ready arms whose debug assertion fails
AssertPairs ==
    { << "Caughtup", "Init" >>, << "InflightFull", "Init" >>,
      << "Caughtup", "Ready" >>, << "InflightFull", "Ready" >> }

\* try_ready on tracker t: Ready and Some(previous) for the pairs, else
\* nothing changes and None
TryReadyAsTable(t, reason, pairs) ==
    IF << t.status, reason >> \in pairs
    THEN try_ready(t, reason)
           = [ tracker |-> [ t EXCEPT !.status = "Ready" ], ret |-> Some(t.status) ]
    ELSE try_ready(t, reason) = [ tracker |-> t, ret |-> None ]

ReschedulesReady ==
    /\ last'.ev = "Ready"
    /\ ready_inflight' /= ready_inflight
    /\ ready_inflight' \subseteq ready_inflight
    /\ HasTracker(R, last'.id)

\* the step inserts a connection with the tracker of its saved session and
\* calls reschedule with reason Init
ReschedulesRestored ==
    /\ last'.ev = "Connect"
    /\ events_sent' /= events_sent
    /\ SlabLen(connections) < MaxConnections
    /\ ~last'.clean
    /\ last'.saved

\* C27: when reschedule is called with reason Ready, on a Ready event, or
\* with reason Init, on a Connect that restores a saved tracker, the
\* tracker is Paused(Busy) or Ready, and the debug assertions of try_ready
\* do not fail
C27_TryReadyAsserts ==
    [][ /\ ReschedulesReady =>
              TrackerOf(R, last'.id).status \in { "Busy", "Ready" }
        /\ ReschedulesRestored =>
              Unwrap(graveyard[last'.client]).tracker.status \in { "Busy", "Ready" }
        /\ panic' /= "try_ready: debug assertion"
      ]_vars

\* the step is a consume() that polls connection id, which is in the router
ConsumesId(id) ==
    /\ Consumes
    /\ readyqueue /= << >>
    /\ Head(readyqueue) = id
    /\ HasTracker(R, id)
    /\ HasOutgoing(R, id)

\* C28: the assert_eq! of Scheduler::pause never fails: a consume step that
\* pauses the polled connection finds its id at the back of the ready queue
\* and pops it, and the tracker is Paused with the reason; a consume step
\* that does not pause leaves the id at the back of the queue
C28_PauseAtBack ==
    /\ [](panic \notin { "pause: assert_eq failed", "pause: unwrap on None" })
    /\ [][ \A id \in ConnIds : ConsumesId(id) /\ panic' = "" =>
              \/ /\ readyqueue' = Tail(readyqueue)
                 /\ trackers'.ent[id] /= None
                 /\ Unwrap(trackers'.ent[id]).status \in PauseReasons
              \/ /\ readyqueue' = Append(Tail(readyqueue), id)
                 /\ trackers'.ent[id] /= None
                 /\ Unwrap(trackers'.ent[id]).status = TrackerOf(R, id).status
      ]_vars

\* connection 0 was consumed and paused as Caughtup while connection 1 is
\* still in the ready queue
C28_Witness ==
    /\ panic = ""
    /\ HasTracker(R, 0)
    /\ TrackerOf(R, 0).status = "Caughtup"
    /\ readyqueue = << 1 >>
    /\ pc \in { "drain", "poll", "top" }

\* the connections of the router that are in the ready queue
ReadyAndLive == { id \in Range(readyqueue) : HasTracker(R, id) }

\* C29: the router goes to the blocking receive at the top of run_inner
\* only when no connection of the router is in the ready queue: with one in
\* the queue the consume() at the top consumes a connection, also when the
\* id at the front of the queue is that of a removed connection
C29_BlocksOnlyWhenIdle ==
    [][ pc = "top" /\ pc' = "recv" => ReadyAndLive = { } ]_vars

\* the filter indexes of the DataRequests in the tracker queue of id
TrackedFilters(id) ==
    { TrackerOf(R, id).data_requests[k].filter_idx :
        k \in 1 .. Len(TrackerOf(R, id).data_requests) }

\* the number of entries of connection id among the waiters w
WaiterCount(w, id) == Cardinality({ k \in 1 .. Len(w) : w[k].id = id })

\* no connection is parked on filter i while its tracker holds a request
\* for that filter
ParkedNotTracked ==
    \A i \in 1 .. Len(native) : \A id \in ConnIds :
        WaiterCount(native[i].waiters, id) > 0 /\ HasTracker(R, id) =>
            i \notin TrackedFilters(id)

\* no connection is parked twice on one filter
ParkedOnce ==
    \A i \in 1 .. Len(native) : \A id \in ConnIds :
        WaiterCount(native[i].waiters, id) <= 1

\* C30: the DataRequest of a connection for a filter is in at most one
\* place: a connection parked in the waiters of a filter has no request for
\* that filter in its tracker queue, a connection is at most once among the
\* waiters of one filter, and a connection that consume() pauses as
\* Caughtup has an empty tracker queue
C30_RequestInOnePlace ==
    /\ [](panic = "" => ParkedNotTracked /\ ParkedOnce)
    /\ [][ \A id \in ConnIds :
              /\ ConsumesId(id)
              /\ panic' = ""
              /\ readyqueue' = Tail(readyqueue)
              /\ Unwrap(trackers'.ent[id]).status = "Caughtup"
              => Unwrap(trackers'.ent[id]).data_requests = << >>
      ]_vars

\* the cached indexes of every cached topic are the indexes of the filters
\* that match it, each once
CacheExact ==
    \A t \in DOMAIN publish_filters :
        /\ NoDuplicates(publish_filters[t])
        /\ Range(publish_filters[t]) = MatchingFilters(t)

\* next_native_offset on a filter that exists returns its index and changes
\* neither filter_indexes nor publish_filters
LookupIdempotent ==
    \A f \in DOMAIN filter_indexes :
        /\ next_native_offset(R, f).idx = filter_indexes[f]
        /\ next_native_offset(R, f).s.filter_indexes = filter_indexes
        /\ next_native_offset(R, f).s.publish_filters = publish_filters
        /\ next_native_offset(R, f).s.native = native

\* the step is a Subscribe of a live connection to the one filter f
SubscribesTo(f) ==
    /\ TakesPacket("Subscribe")
    /\ Len(last'.packets[1].filters) = 1
    /\ last'.packets[1].filters[1].path = f

\* C31: for every cached topic t, publish_filters[t] holds the index of
\* each filter that matches t exactly once and no other index; a Subscribe
\* that creates a filter adds its index to every cached topic it matches and
\* to no other, and next_native_offset for an existing filter changes
\* neither filter_indexes nor publish_filters
C31_PublishFiltersExact ==
    /\ [](CacheExact /\ LookupIdempotent)
    /\ [][ \A f \in FiltersFanout : SubscribesTo(f) /\ panic' = "" =>
              IF f \in DOMAIN filter_indexes
              THEN /\ filter_indexes' = filter_indexes
                   /\ publish_filters' = publish_filters
              ELSE /\ DOMAIN publish_filters' = DOMAIN publish_filters
                   /\ \A t \in DOMAIN publish_filters :
                         publish_filters'[t] =
                            IF matches(t, f)
                            THEN Append(publish_filters[t], filter_indexes'[f])
                            ELSE publish_filters[t]
      ]_vars

\* a/b was cached before the second of its matching filters was created,
\* and the last event subscribed again to the filter whose log holds the
\* publish
C31_Witness ==
    /\ panic = ""
    /\ TopicAB \in DOMAIN publish_filters
    /\ publish_filters[TopicAB] = << 1, 2 >>
    /\ Len(native[1].log) = 1
    /\ native[2].log = << >>
    /\ last.ev = "DeviceData"
    /\ last.packets = << Sub(native[1].filter, 0) >>

\* the number of Forward notifications in the outgoing buffer of id
ForwardCount(id) ==
    Cardinality(ForwardsIn(OutgoingOf(R, id).data_buffer))

\* the step is Router::events taking a DeviceData event of connection id
\* with a PubAck or PubRec in it
TakesAckOf(id) ==
    /\ events_sent' = events_sent + 1
    /\ last'.ev = "DeviceData"
    /\ last'.id = id
    /\ \E k \in 1 .. Len(last'.packets) :
          last'.packets[k].type \in { "PubAck", "PubRec" }

\* the inflight window of no connection holds more than MAX_INFLIGHT
\* forwards, and with no free slot forward_device_data returns InflightFull
\* for a QoS 1 request and leaves request and router as they are
WindowKept ==
    \A id \in ConnIds : HasOutgoing(R, id) /\ HasTracker(R, id) =>
        /\ Len(OutgoingOf(R, id).inflight_buffer) <= MAX_INFLIGHT
        /\ \A request \in PendingRequests(id) :
              request.qos = 1 /\ free_slots(OutgoingOf(R, id)) = 0 =>
                 forward_device_data(R, id, request) =
                    [ status |-> "InflightFull", request |-> request, s |-> R ]

\* C32: the unacknowledged QoS 1 forwards of a connection never exceed its
\* inflight window; with no free slot the forward step returns InflightFull
\* without reading or advancing the cursor; a consume that pauses the
\* connection as InflightFull leaves the QoS 1 request at the back of its
\* tracker; and a connection that is Paused(InflightFull) stays so and gets
\* no further Forward until a PubAck or PubRec of its own is handled
C32_InflightWindow ==
    /\ [](panic = "" => WindowKept)
    /\ [][ \A id \in ConnIds :
              /\ ConsumesId(id)
              /\ panic' = ""
              /\ TrackerOf(R, id).status = "Ready"
              /\ Unwrap(trackers'.ent[id]).status = "InflightFull"
              => /\ free_slots(Unwrap(obufs'.ent[id])) = 0
                 /\ Unwrap(trackers'.ent[id]).data_requests /= << >>
                 /\ Unwrap(trackers'.ent[id]).data_requests[
                        Len(Unwrap(trackers'.ent[id]).data_requests)].qos = 1
      ]_vars
    /\ [][ \A id \in ConnIds :
              /\ panic = "" /\ panic' = ""
              /\ HasTracker(R, id) /\ HasOutgoing(R, id)
              /\ TrackerOf(R, id).status = "InflightFull"
              /\ trackers'.ent[id] /= None /\ obufs'.ent[id] /= None
              /\ ~TakesAckOf(id)
              => /\ Unwrap(trackers'.ent[id]).status = "InflightFull"
                 /\ ForwardCount(id)' <= ForwardCount(id)
      ]_vars

\* the step is Router::events handling the Ready event of connection id
TakesReadyOf(id) ==
    /\ ready_inflight' = ready_inflight \ { id }
    /\ id \in ready_inflight
    /\ last'.ev = "Ready"
    /\ last'.id = id

\* the state after a consume that found the buffer of id full: Unschedule
\* is the last notification, behind the last Forward, and the request of
\* that Forward is at the back of the tracker with the cursor it read up to
PausedOnFullBuffer(tracker, outgoing) ==
    LET buffer == outgoing.data_buffer
        requests == tracker.data_requests
    IN  /\ Len(buffer) >= MAX_CHANNEL_CAPACITY
        /\ buffer[Len(buffer)] = [ kind |-> "Unschedule" ]
        /\ buffer[Len(buffer) - 1].kind = "Forward"
        /\ requests /= << >>
        /\ requests[Len(requests)].cursor = buffer[Len(buffer) - 1].cursor
        /\ requests[Len(requests)].filter_idx = buffer[Len(buffer) - 1].from[1]

\* C33: a consume that pauses a connection as Busy leaves the request with
\* its advanced cursor at the back of the tracker and Unschedule as the
\* last notification of the outgoing buffer; a connection that is
\* Paused(Busy) stays so, whatever FreshData, NewFilter or IncomingAck
\* arrives, and no Forward is pushed to its buffer until its Ready event is
\* handled
C33_BufferFullPauses ==
    /\ [][ \A id \in ConnIds :
              /\ ConsumesId(id)
              /\ panic' = ""
              /\ TrackerOf(R, id).status = "Ready"
              /\ Unwrap(trackers'.ent[id]).status = "Busy"
              => PausedOnFullBuffer(Unwrap(trackers'.ent[id]),
                                    Unwrap(obufs'.ent[id]))
      ]_vars
    /\ [][ \A id \in ConnIds :
              /\ panic = "" /\ panic' = ""
              /\ HasTracker(R, id) /\ HasOutgoing(R, id)
              /\ TrackerOf(R, id).status = "Busy"
              /\ trackers'.ent[id] /= None /\ obufs'.ent[id] /= None
              /\ ~TakesReadyOf(id)
              => /\ Unwrap(trackers'.ent[id]).status = "Busy"
                 /\ ForwardCount(id)' <= ForwardCount(id)
      ]_vars

\* the Forward n was read for one of the requests with the QoS
\* min(publish.qos, request.qos), publish the item of the filter log it was
\* read from
ForwardedAtMin(n, requests) ==
    \E k \in 1 .. Len(requests) :
        /\ requests[k].filter_idx = n.from[1]
        /\ n.publish.qos =
              Min(native[n.from[1]].log[n.from[2] + 1].qos, requests[k].qos)

\* C34: every publish that a consume forwards to a subscriber carries the
\* QoS min(publish.qos, request.qos), publish.qos the QoS it was appended
\* to the filter log with and request.qos the QoS of the polled request; no
\* publish is forwarded with a QoS above the one it was published with
C34_ForwardQosMin ==
    [][ \A id \in ConnIds : ConsumesId(id) /\ panic' = "" =>
          \A k \in ForwardsIn(Unwrap(obufs'.ent[id]).data_buffer) :
              k > Len(OutgoingOf(R, id).data_buffer) =>
                  /\ ForwardedAtMin(Unwrap(obufs'.ent[id]).data_buffer[k],
                                    TrackerOf(R, id).data_requests)
                  /\ Unwrap(obufs'.ent[id]).data_buffer[k].publish.qos <=
                        native[Unwrap(obufs'.ent[id]).data_buffer[k].from[1]]
                            .log[Unwrap(obufs'.ent[id]).data_buffer[k].from[2] + 1].qos
      ]_vars

\* the tracker of every connection of the router is Ready exactly when its
\* id is in the ready queue
ReadyIffQueued ==
    \A id \in ConnIds : HasTracker(R, id) =>
        (TrackerOf(R, id).status = "Ready" <=> id \in Range(readyqueue))

\* C35: between router steps the tracker of a live connection is Ready if
\* and only if its id is in the ready queue, also for a tracker restored
\* from the graveyard and for an id taken over from a connection that was
\* removed while in the ready queue; hence a consume polls no connection
\* whose tracker is Paused
C35_ReadyIffQueued ==
    /\ [](panic = "" => ReadyIffQueued)
    /\ [][ \A id \in ConnIds : ConsumesId(id) =>
              TrackerOf(R, id).status = "Ready" ]_vars

\* the ConnAck of connection id is in its ack log, not yet in its buffer
ConnAckPending(id) ==
    /\ HasAckLog(R, id)
    /\ \E k \in 1 .. Len(AckLogOf(R, id).committed) :
          AckLogOf(R, id).committed[k].type = "ConnAck"

TakesLateDisconnect ==
    /\ events_sent' = events_sent + 1
    /\ last'.ev = "Disconnect"
    /\ last.ev = "Connect"
    /\ last.again
    /\ last'.id = last.id
    /\ HasOutgoing(R, last.id)

\* C37: a Disconnect event for a connection that the router has removed
\* changes no other connection: when the ConnectionId has been given to a
\* new connection before the event arrives, the new connection stays in the
\* router with its slabs, tracker, subscriptions and waiters, and its last
\* will is not published
C37_LateDisconnectHarmless ==
    [][ TakesLateDisconnect => R' = R /\ panic' = "" ]_vars

\* the recorded publishes of connection id with packet id pkid
RecordedWith(id, pkid) ==
    { k \in 1 .. Len(RecordedOf(ackslog, id)) :
        RecordedOf(ackslog, id)[k].pkid = pkid }

\* the entries that the step has appended to the log of filter i
AppendedTo(i) ==
    SubSeq(native'[i].log, Len(native[i].log) + 1, Len(native'[i].log))

\* C38: a step that takes PubRel(x) from a connection appends to the filter
\* logs the recorded QoS 2 publish of that connection whose pkid is x and
\* takes it from the recorded queue, in whatever order the PubRel packets
\* arrive; a PubRel whose pkid matches no recorded publish appends nothing
C38_PubRelByPkid ==
    [][ TakesPacket("PubRel") /\ panic' = "" =>
          IF RecordedWith(last'.id, last'.packets[1].pkid) = { }
          THEN \A i \in 1 .. Len(native) : AppendedTo(i) = << >>
          ELSE \A i \in 1 .. Len(native) : \A k \in 1 .. Len(AppendedTo(i)) :
                   AppendedTo(i)[k].pkid = last'.packets[1].pkid
      ]_vars

\* connection id has a pending request on filter i that is past a copy of
\* the publish now retained for its topic: entry k of the log of i
SentRetained(id, i, k) ==
    /\ HasConnection(R, id)
    /\ native[i].filter \in ConnectionOf(R, id).subscriptions
    /\ k \in 1 .. Len(native[i].log)
    /\ native[i].log[k].retain
    /\ native[i].log[k].topic \in DOMAIN retained_publishes
    /\ retained_publishes[native[i].log[k].topic] = native[i].log[k]
    /\ \E request \in PendingRequests(id) :
          request.filter_idx = i /\ request.cursor >= k

\* C39: a Subscribe replays the retained publishes to the subscribing
\* connection only: the step appends no further copy of a retained publish
\* to a filter log in which another connection, subscribed to that filter,
\* has already read a copy of it
C39_ReplayToSubscriberOnly ==
    [][ TakesPacket("Subscribe") /\ panic' = "" =>
          \A id \in ConnIds \ { last'.id } : \A i \in 1 .. Len(native) :
              \A k \in 1 .. Len(native[i].log) :
                  SentRetained(id, i, k) =>
                      \A n \in 1 .. Len(AppendedTo(i)) :
                          AppendedTo(i)[n] /= native[i].log[k]
      ]_vars


\* the requests of the queue, in order, whose filter is not the given one
RequestsNotOn(q, filter) == SelectSeq(q, LAMBDA request : request.filter /= filter)

\* C40: on every tracker of the router and every filter of the router,
\* unregister_data_request leaves exactly the requests whose filter is not
\* the argument, in their original relative order, whatever the queue holds
C40_UnregisterExact ==
    \A id \in ConnIds : \A i \in 1 .. Len(native) :
        HasTracker(R, id) =>
            unregister_data_request(TrackerOf(R, id), native[i].filter).data_requests
                = RequestsNotOn(TrackerOf(R, id).data_requests, native[i].filter)

====
